---------------------------- MODULE Spec2Model ----------------------------
(***************************************************************************)
(* A model of the scoring engines of business-rader-3000:                  *)
(*   services/keyword_match.py  expand_keywords, match_keywords,           *)
(*                              score_keyword_relevance, flag_business     *)
(*   services/swot.py           _tag_for_title, generate_swot_from_news    *)
(*   services/contacts.py       _score_title, filter_contacts_by_title     *)
(*   services/market_graph.py   build_market_graph                         *)
(*                                                                         *)
(* A Python str is the sequence of its characters, each character a        *)
(* one-character string ("TAB", "NL", "QUOTE", "BACKSLASH", "EMDASH" and   *)
(* "ENDASH" name the characters that have no plain spelling).  None is the *)
(* value None_.                                                            *)
(***************************************************************************)
EXTENDS Integers, Sequences, FiniteSets, TLC

VARIABLES
    \* expand_keywords (keyword_match.py:24-36)
    ek_in,          \* the keywords consumed so far by the loop of line 28
    ek_out,         \* out
    ek_seen,        \* seen
    \* match_keywords (keyword_match.py:74-94)
    mk_pc,          \* "start" before the call, "done" once it returned
    mk_call,        \* the arguments of the call: text, include, exclude
    mk_ret,         \* what it returned: matched, excluded
    \* score_keyword_relevance (keyword_match.py:96-136)
    sk_pc,          \* "start", "loop" (at the head of the loop of line 114), "done"
    include,        \* include, expanded (line 106)
    exclude,        \* exclude, expanded (line 107)
    pages,          \* the pages the loop has consumed so far, as text numbers
    total_score,
    evidence,
    all_matched,
    all_excluded,
    sk_ret,         \* the dict returned
    \* generate_swot_from_news (swot.py:49-97)
    sw_pc,          \* "start", "loop" (at the head of the loop of line 58), "done"
    max_items_per_bucket,
    news,           \* the items the loop has consumed so far, as item numbers
    swot,
    seen_lines,
    \* flag_business (keyword_match.py:138-163)
    fl_pc,          \* "start", "fetch" (inside fetch_text_pages), "done"
    url_or_domain,
    include_keywords,
    exclude_keywords,
    threshold,
    dom,
    fl_ret,         \* the dict returned
    \* _score_title (contacts.py:257-283)
    st_pc,          \* "start" before the call, "called" inside it, "done" once it returned
    st_title,       \* the argument
    st_ret,         \* the score returned
    \* filter_contacts_by_title (contacts.py:296-317)
    fc_pc,          \* "start", "loop" (at the head of the loop of line 303), "done"
    contacts,       \* the contacts the loop has consumed so far, as contact numbers
    top_n,
    min_score,
    scored,
    fc_ret,         \* the list returned
    \* _tag_for_title (swot.py:42-47)
    tg_pc,          \* "start", "done"
    tg_title,
    tg_ret,         \* the tag returned, "None" for None
    \* two calls of filter_contacts_by_title at once, on the same list
    cc_pc,          \* "start", "run"
    caller_contacts, \* the caller's list of contact dicts, shared by the calls
    given_contacts, \* that list as the caller built it
    weight_tables,  \* the module-level _SENIORITY_WEIGHTS and _DEPT_WEIGHTS
    calls,          \* for each call its locals: pc, i, top_n, min_score, scored, ret
    \* build_market_graph (market_graph.py:12-67)
    mg_pc,          \* "start", "loop" (at the head of the loop of line 38), "done"
    seed_company,
    max_depth,
    max_per_company,
    G,              \* the graph: its nodes with their attributes, its edges
    frontier,
    seen_names,     \* seen
    similar_calls,  \* every call of get_similar so far: the company and its depth
    frontier_log    \* every name put into frontier so far, in order

ek_vars == <<ek_in, ek_out, ek_seen>>
mk_vars == <<mk_pc, mk_call, mk_ret>>
sk_vars == <<sk_pc, include, exclude, pages, total_score, evidence, all_matched,
             all_excluded, sk_ret>>

sw_vars == <<sw_pc, max_items_per_bucket, news, swot, seen_lines>>

fl_vars == <<fl_pc, url_or_domain, include_keywords, exclude_keywords, threshold,
             dom, fl_ret>>

st_vars == <<st_pc, st_title, st_ret>>

fc_vars == <<fc_pc, contacts, top_n, min_score, scored, fc_ret>>

tg_vars == <<tg_pc, tg_title, tg_ret>>

cc_vars == <<cc_pc, caller_contacts, given_contacts, weight_tables, calls>>

mg_vars == <<mg_pc, seed_company, max_depth, max_per_company, G, frontier, seen_names,
             similar_calls, frontier_log>>

vars == <<ek_vars, mk_vars, sk_vars, sw_vars, fl_vars, st_vars, fc_vars, tg_vars, cc_vars,
          mg_vars>>

\* what each engine leaves alone: the variables of the others
expand_rest == <<mk_vars, sk_vars, sw_vars, fl_vars, st_vars, fc_vars, tg_vars, cc_vars, mg_vars>>
match_rest == <<ek_vars, sk_vars, sw_vars, fl_vars, st_vars, fc_vars, tg_vars, cc_vars, mg_vars>>
score_rest == <<ek_vars, mk_vars, sw_vars, fl_vars, st_vars, fc_vars, tg_vars, cc_vars, mg_vars>>
swot_rest == <<ek_vars, mk_vars, sk_vars, fl_vars, st_vars, fc_vars, tg_vars, cc_vars, mg_vars>>
flag_rest == <<ek_vars, mk_vars, sk_vars, sw_vars, st_vars, fc_vars, tg_vars, cc_vars, mg_vars>>
title_rest == <<ek_vars, mk_vars, sk_vars, sw_vars, fl_vars, fc_vars, tg_vars, cc_vars, mg_vars>>
filter_rest == <<ek_vars, mk_vars, sk_vars, sw_vars, fl_vars, st_vars, tg_vars, cc_vars, mg_vars>>
tag_rest == <<ek_vars, mk_vars, sk_vars, sw_vars, fl_vars, st_vars, fc_vars, cc_vars, mg_vars>>
concurrent_rest == <<ek_vars, mk_vars, sk_vars, sw_vars, fl_vars, st_vars, fc_vars, tg_vars, mg_vars>>
graph_rest == <<ek_vars, mk_vars, sk_vars, sw_vars, fl_vars, st_vars, fc_vars, tg_vars, cc_vars>>

\* None
None_ == <<"None">>

---------------------------------------------------------------------------
(* Python str and list helpers *)

Min(a, b) == IF a <= b THEN a ELSE b
Max(a, b) == IF a >= b THEN a ELSE b

Range(s) == {s[i] : i \in DOMAIN s}

\* v or "", v or []
OrEmpty(v) == IF v = None_ THEN <<>> ELSE v

\* x in list
InSeq(x, s) == \E i \in DOMAIN s : s[i] = x

CountOf(x, s) == Cardinality({i \in DOMAIN s : s[i] = x})

NoDuplicates(s) == \A i, j \in DOMAIN s : s[i] = s[j] => i = j

UpperLetters == <<"A","B","C","D","E","F","G","H","I","J","K","L","M","N","O","P","Q","R","S","T","U","V","W","X","Y","Z">> (* ABCDEFGHIJKLMNOPQRSTUVWXYZ *)
LowerLetters == <<"a","b","c","d","e","f","g","h","i","j","k","l","m","n","o","p","q","r","s","t","u","v","w","x","y","z">> (* abcdefghijklmnopqrstuvwxyz *)
Digits == <<"0","1","2","3","4","5","6","7","8","9">> (* 0123456789 *)

\* the lowercase letter of each uppercase letter
LowerOf ==
    [c \in {UpperLetters[i] : i \in DOMAIN UpperLetters} |->
        LowerLetters[CHOOSE i \in DOMAIN UpperLetters : UpperLetters[i] = c]]

\* str.lower() on one character
LowerChar(c) == IF c \in DOMAIN LowerOf THEN LowerOf[c] ELSE c

\* str.lower()
Lower(s) == [i \in DOMAIN s |-> LowerChar(s[i])]

\* the characters str.strip() and the regex class \s remove
IsSpace(c) == c \in {" ", "TAB", "NL"}

RECURSIVE LStrip(_)
LStrip(s) == IF s # <<>> /\ IsSpace(Head(s)) THEN LStrip(Tail(s)) ELSE s

RECURSIVE RStrip(_)
RStrip(s) ==
    IF s # <<>> /\ IsSpace(s[Len(s)]) THEN RStrip(SubSeq(s, 1, Len(s) - 1)) ELSE s

\* str.strip()
Strip(s) == RStrip(LStrip(s))

\* sub occurs in s at (1-based) position p
OccursAt(sub, s, p) ==
    /\ p >= 1
    /\ p + Len(sub) - 1 <= Len(s)
    /\ \A i \in 1..Len(sub) : s[p + i - 1] = sub[i]

\* sub in s
Contains(s, sub) == \E p \in 1..(Len(s) - Len(sub) + 1) : OccursAt(sub, s, p)

---------------------------------------------------------------------------
(* keyword_match.py: the synonym table and expand_keywords *)

SynonymKeys ==
    << <<"a","i">> (* ai *), <<"s","a","a","s">> (* saas *), <<"c","r","m">> (* crm *), <<"p","r","o","c","u","r","e","m","e","n","t">> (* procurement *),
       <<"e","v">> (* ev *), <<"c","h","i","p">> (* chip *), <<"e","r","p">> (* erp *), <<"e","x","p","a","n","s","i","o","n">> (* expansion *) >>

SynonymLists ==
    << << <<"a","r","t","i","f","i","c","i","a","l"," ","i","n","t","e","l","l","i","g","e","n","c","e">> (* artificial intelligence *), <<"m","a","c","h","i","n","e"," ","l","e","a","r","n","i","n","g">> (* machine learning *), <<"m","l">> (* ml *),
          <<"d","e","e","p"," ","l","e","a","r","n","i","n","g">> (* deep learning *) >>,
       << <<"s","o","f","t","w","a","r","e"," ","a","s"," ","a"," ","s","e","r","v","i","c","e">> (* software as a service *), <<"s","u","b","s","c","r","i","p","t","i","o","n"," ","s","o","f","t","w","a","r","e">> (* subscription software *),
          <<"c","l","o","u","d"," ","s","o","f","t","w","a","r","e">> (* cloud software *) >>,
       << <<"c","u","s","t","o","m","e","r"," ","r","e","l","a","t","i","o","n","s","h","i","p"," ","m","a","n","a","g","e","m","e","n","t">> (* customer relationship management *), <<"s","a","l","e","s"," ","p","l","a","t","f","o","r","m">> (* sales platform *) >>,
       << <<"p","u","r","c","h","a","s","i","n","g">> (* purchasing *), <<"s","o","u","r","c","i","n","g">> (* sourcing *), <<"s","u","p","p","l","i","e","r"," ","m","a","n","a","g","e","m","e","n","t">> (* supplier management *) >>,
       << <<"e","l","e","c","t","r","i","c"," ","v","e","h","i","c","l","e">> (* electric vehicle *), <<"b","a","t","t","e","r","y"," ","e","l","e","c","t","r","i","c">> (* battery electric *), <<"e","-","m","o","b","i","l","i","t","y">> (* e-mobility *) >>,
       << <<"s","e","m","i","c","o","n","d","u","c","t","o","r">> (* semiconductor *), <<"i","n","t","e","g","r","a","t","e","d"," ","c","i","r","c","u","i","t">> (* integrated circuit *), <<"i","c">> (* ic *), <<"m","i","c","r","o","c","h","i","p">> (* microchip *) >>,
       << <<"e","n","t","e","r","p","r","i","s","e"," ","r","e","s","o","u","r","c","e"," ","p","l","a","n","n","i","n","g">> (* enterprise resource planning *) >>,
       << <<"e","x","p","a","n","d","s">> (* expands *), <<"e","x","p","a","n","s","i","o","n">> (* expansion *), <<"o","p","e","n","s"," ","n","e","w">> (* opens new *), <<"n","e","w"," ","o","f","f","i","c","e">> (* new office *),
          <<"n","e","w"," ","p","l","a","n","t">> (* new plant *), <<"n","e","w"," ","f","a","c","t","o","r","y">> (* new factory *), <<"n","e","w"," ","f","a","c","i","l","i","t","y">> (* new facility *), <<"n","e","w"," ","m","a","r","k","e","t">> (* new market *) >> >>

\* _SYNONYMS.get(base, [])
Synonyms(base) ==
    IF \E i \in DOMAIN SynonymKeys : SynonymKeys[i] = base
    THEN SynonymLists[CHOOSE i \in DOMAIN SynonymKeys : SynonymKeys[i] = base]
    ELSE <<>>

\* the same loop without the seen test
RECURSIVE AddAlways(_, _)
AddAlways(st, alts) ==
    IF alts = <<>> THEN st
    ELSE AddAlways([out |-> Append(st.out, Head(alts)),
                    seen |-> st.seen \cup {Head(alts)}], Tail(alts))

\* the inner loop of expand_keywords: every alt not yet seen is added to seen
\* and appended to out
RECURSIVE AddUnseen(_, _)
AddUnseen(st, alts) ==
    IF alts = <<>> THEN st
    ELSE LET alt == Head(alts) IN
         IF alt \notin st.seen
         THEN AddUnseen([out |-> Append(st.out, alt), seen |-> st.seen \cup {alt}],
                        Tail(alts))
         ELSE AddUnseen(st, Tail(alts))

\* the base of a keyword that is trimmed but keeps its case
KeywordBaseKeepCase(k) == Strip(k)

\* base = k.strip().lower()
KeywordBase(k) == Lower(Strip(k))

\* the same iteration with the base taken before its synonyms
ExpandOneBaseFirst(st, k) ==
    LET base == KeywordBase(k) IN
    IF base = <<>> THEN st
    ELSE AddUnseen(st, <<base>> \o Synonyms(base))

\* one iteration of the loop over keywords, on the loop state st = [out, seen]
ExpandOne(st, k) ==
    LET base == KeywordBase(k) IN
    IF base = <<>> THEN st
    ELSE AddUnseen(st, Synonyms(base) \o <<base>>)

RECURSIVE ExpandFrom(_, _)
ExpandFrom(st, keywords) ==
    IF keywords = <<>> THEN st
    ELSE ExpandFrom(ExpandOne(st, Head(keywords)), Tail(keywords))

\* expand_keywords(keywords)
expand_keywords(keywords) == ExpandFrom([out |-> <<>>, seen |-> {}], keywords).out

\* the keywords the callers of the model pass to expand_keywords
KeywordPool ==
    { <<"a","i">> (* ai *), <<" ","A","I"," ">> (*  AI  *), <<"m","l">> (* ml *), <<"E","x","p","a","n","s","i","o","n">> (* Expansion *), <<"e","x","p","a","n","s","i","o","n">> (* expansion *), <<"o","p","e","n","s"," ","n","e","w">> (* opens new *),
      <<"p","r","o","c","u","r","e","m","e","n","t">> (* procurement *),
      <<"s","o","u","r","c","i","n","g">> (* sourcing *), <<"r","o","b","o","t","i","c","s">> (* robotics *), <<>>, <<" ","TAB">> }

MaxKeywords == 3

\* the loop of expand_keywords takes its next keyword k
ExpandStep(k) ==
    /\ Len(ek_in) < MaxKeywords
    /\ LET st == ExpandOne([out |-> ek_out, seen |-> ek_seen], k) IN
       /\ ek_out' = st.out
       /\ ek_seen' = st.seen
    /\ ek_in' = Append(ek_in, k)
    /\ UNCHANGED expand_rest

ExpandNext == \E k \in KeywordPool : ExpandStep(k)

---------------------------------------------------------------------------
(* keyword_match.py: _normalize, difflib's find_longest_match, match_keywords *)

\* the characters in code point order, the order sorted() compares strings by
CodePoints ==
    <<"TAB","NL"," ","!">> \o <<"QUOTE">> \o <<"#","$","%","&","'","(",")","*","+",",","-",".","/","0","1","2","3","4","5","6","7","8","9",":",";","<","=",">","?">> (* #$%&'()*+,-./0123456789:;<=>? *) \o <<"@">>
    \o UpperLetters \o <<"[", "BACKSLASH", "]", "^", "_", "BACKTICK">> \o LowerLetters
    \o <<"{", "|", "}", "~", "ENDASH", "EMDASH">>

Ord(c) == CHOOSE i \in DOMAIN CodePoints : CodePoints[i] = c

\* a < b on str
StrLess(a, b) ==
    \E n \in 0..Min(Len(a), Len(b)) :
        /\ \A i \in 1..n : a[i] = b[i]
        /\ \/ n = Len(a) /\ n < Len(b)
           \/ n < Len(a) /\ n < Len(b) /\ Ord(a[n + 1]) < Ord(b[n + 1])

\* the sequence s without the positions that fail Keep
KeepPositions(s, Keep(_)) ==
    LET idx == SelectSeq([i \in DOMAIN s |-> i], Keep)
    IN [j \in DOMAIN idx |-> s[idx[j]]]

\* re.sub(r"[\u2010-\u2015]", "-", s): the dashes U+2010..U+2015 become "-"
NormalizeDashes(s) ==
    [i \in DOMAIN s |-> IF s[i] \in {"ENDASH", "EMDASH"} THEN "-" ELSE s[i]]

\* the class [a-z0-9%+@.\- ]
AllowedChar(c) ==
    \/ c \in Range(LowerLetters) \cup Range(Digits)
    \/ c \in {"%", "+", "@", ".", "-", " "}

\* re.sub(r"[^a-z0-9%+@.\- ]+", " ", s): each run of other characters
\* becomes one space
ReplaceOthers(s) ==
    LET t == [i \in DOMAIN s |-> IF AllowedChar(s[i]) THEN s[i] ELSE " "]
    IN KeepPositions(t, LAMBDA i : AllowedChar(s[i]) \/ i = 1 \/ AllowedChar(s[i - 1]))

\* re.sub(r"\s+", " ", s): each run of whitespace becomes one space
CollapseSpaces(s) ==
    LET t == [i \in DOMAIN s |-> IF IsSpace(s[i]) THEN " " ELSE s[i]]
    IN KeepPositions(t, LAMBDA i : ~IsSpace(s[i]) \/ i = 1 \/ ~IsSpace(s[i - 1]))

\* _normalize(s)
_normalize(s) == Strip(CollapseSpaces(ReplaceOthers(NormalizeDashes(Lower(s)))))

\* difflib.SequenceMatcher(None, a, b), autojunk left on: in a b of 200
\* characters or more, each character that occurs more than len(b)//100 + 1
\* times is "popular" and dropped from the index b2j
AutojunkMinLen == 200

Popular(b) ==
    IF Len(b) >= AutojunkMinLen
    THEN {c \in Range(b) :
            Cardinality({j \in DOMAIN b : b[j] = c}) > (Len(b) \div 100) + 1}
    ELSE {}

\* j2len: the length of the run of equal, indexed characters that ends at
\* a[i] and b[j]
RECURSIVE RunLen(_, _, _, _, _)
RunLen(a, b, pop, i, j) ==
    IF i >= 1 /\ j >= 1 /\ a[i] = b[j] /\ b[j] \notin pop
    THEN 1 + RunLen(a, b, pop, i - 1, j - 1)
    ELSE 0

\* the extension of the best run to the left by equal characters
RECURSIVE ExtendBack(_, _, _, _)
ExtendBack(a, b, i, j) ==
    IF i > 1 /\ j > 1 /\ a[i - 1] = b[j - 1]
    THEN 1 + ExtendBack(a, b, i - 1, j - 1)
    ELSE 0

\* the extension to the right, from the first positions after the run
RECURSIVE ExtendForward(_, _, _, _)
ExtendForward(a, b, i, j) ==
    IF i <= Len(a) /\ j <= Len(b) /\ a[i] = b[j]
    THEN 1 + ExtendForward(a, b, i + 1, j + 1)
    ELSE 0

\* the pairs (i, j) with a[i] = b[j] that b2j holds: b[j] is not popular
RunEnds(a, b, pop) ==
    {ij \in (DOMAIN a) \X (DOMAIN b) : a[ij[1]] = b[ij[2]] /\ b[ij[2]] \notin pop}

MaxOf(S) == CHOOSE n \in S : \A m \in S : m <= n

\* the loop of find_longest_match keeps the first longest run it meets: the
\* one that ends earliest in a and, among those, earliest in b
FirstEnd(E) ==
    CHOOSE ij \in E :
        \A o \in E : ij[1] < o[1] \/ (ij[1] = o[1] /\ ij[2] <= o[2])

\* the run of length best that ends at a[end[1]], b[end[2]], extended on
\* both sides by equal characters
ExtendedSize(a, b, best, end) ==
    best + ExtendBack(a, b, end[1] - best + 1, end[2] - best + 1)
         + ExtendForward(a, b, end[1] + 1, end[2] + 1)

LongestFrom(a, b, pop, ends, best) ==
    ExtendedSize(a, b, best,
                 FirstEnd({ij \in ends : RunLen(a, b, pop, ij[1], ij[2]) = best}))

\* with nothing indexed the best run is the empty one at the start of both
SizeFromEnds(a, b, pop, ends) ==
    IF ends = {} THEN ExtendForward(a, b, 1, 1)
    ELSE LongestFrom(a, b, pop, ends,
                     MaxOf({RunLen(a, b, pop, ij[1], ij[2]) : ij \in ends}))

SizeWithPopular(a, b, pop) == SizeFromEnds(a, b, pop, RunEnds(a, b, pop))

\* SequenceMatcher(None, a, b).find_longest_match(0, len(a), 0, len(b)).size
FindLongestMatchSize(a, b) == SizeWithPopular(a, b, Popular(b))

\* the page texts of the model; a text is named by its position here
TextPool ==
    << <<"W","e"," ","a","r","e"," ","a","n"," ","A","I"," ","S","a","a","S"," ","p","l","a","t","f","o","r","m",".">> (* We are an AI SaaS platform. *),
       <<"M","a","c","h","i","n","e"," ","L","e","a","r","n","i","n","g"," ","&"," ","d","e","e","p"," ","l","e","a","r","n","i","n","g">> (* Machine Learning & deep learning *),
       <<"C","l","o","u","d"," ","s","o","f","t","w","a","r","e"," ","EMDASH"," ","M","L"," ","a","d","s">>,
       <<"A","r","t","i","f","i","c","i","a","l"," ","I","n","t","e","l","l","i","g","e","n","c","e">> (* Artificial Intelligence *),
       <<"s","u","b","s","c","r","i","p","t","i","o","n"," ","s","o","f","t","w","a","r","e">> (* subscription software *),
       <<"s","o","f","t","w","a","r","e"," ","a","s"," ","a"," ","s","e","r","v","i","c","e">> (* software as a service *),
       <<"o","n","l","i","n","e"," ","c","a","s","i","n","o"," ","a","d","s">> (* online casino ads *),
       <<"m","l"," ","c","a","s","i","n","o"," ","a","d","s"," ","s","p","a","m">> (* ml casino ads spam *),
       <<"w","e"," ","b","u","i","l","d"," ","e"," ","m","o","b","i","l","i","t","y"," ","c","h","a","r","g","e","r","s">> (* we build e mobility chargers *),
       \* the sentence "we build e mobility chargers. " seven times over
       <<"w","e"," ","b","u","i","l","d"," ","e"," ","m","o","b","i","l","i","t","y"," ","c","h","a","r","g","e","r","s","."," ","w","e"," ","b","u","i","l","d"," ","e"," ","m","o","b","i","l","i","t","y"," ","c","h","a","r","g","e","r","s","."," ","w","e"," ","b","u","i","l","d"," ","e"," ","m","o","b","i","l","i","t","y"," ","c","h","a","r","g","e","r","s","."," ","w","e"," ","b","u","i","l","d"," ","e"," ","m","o","b","i","l","i","t","y"," ","c","h","a","r","g","e","r","s","."," ","w","e"," ","b","u","i","l","d"," ","e"," ","m","o","b","i","l","i","t","y"," ","c","h","a","r","g","e","r","s","."," ","w","e"," ","b","u","i","l","d"," ","e"," ","m","o","b","i","l","i","t","y"," ","c","h","a","r","g","e","r","s","."," ","w","e"," ","b","u","i","l","d"," ","e"," ","m","o","b","i","l","i","t","y"," ","c","h","a","r","g","e","r","s","."," ">> >>

TextIds == DOMAIN TextPool

\* the raw keyword lists the model passes as include and as exclude
IncludeChoices == { << <<"a","i">> (* ai *), <<"s","a","a","s">> (* saas *) >>, << <<"e","v">> (* ev *), <<" ","A","I"," ">> (*  AI  *) >> }
ExcludeChoices == { <<>>, << <<"c","a","s","i","n","o">> (* casino *), <<"a","d","s">> (* ads *), <<"s","p","a","m">> (* spam *) >> }

\* the keywords of direct calls of match_keywords
MatchKeywordPool ==
    { <<"A","I">> (* AI *), <<"a","i">> (* ai *), <<"e","-","m","o","b","i","l","i","t","y">> (* e-mobility *), <<"E","-","M","o","b","i","l","i","t","y">> (* E-Mobility *), <<"s","a","a","s">> (* saas *), <<" ">> (*   *),
      <<"m","a","c","h","i","n","e"," ","l","e","a","r","n","i","n","g">> (* machine learning *), <<"c","a","s","i","n","o">> (* casino *) }

\* every keyword, lowercased, that reaches the matching
KeywordUniverse ==
    UNION {Range(expand_keywords(c)) : c \in IncludeChoices \cup ExcludeChoices}
    \cup {Lower(k) : k \in MatchKeywordPool}

\* sorted(): the keywords in ascending order of str
SortedUniverse ==
    [r \in 1..Cardinality(KeywordUniverse) |->
        CHOOSE k \in KeywordUniverse :
            Cardinality({k2 \in KeywordUniverse : StrLess(k2, k)}) = r - 1]

\* sorted(set of keywords)
Sorted(S) == SelectSeq(SortedUniverse, LAMBDA k : k \in S)

\* t = _normalize(text), once per text
NormText == [t \in TextIds |-> _normalize(TextPool[t])]

\* k in t
SubstringHit(k, t) == Contains(t, k)

\* ratio >= 0.75, with ratio = size / max(1, len(k))
FuzzyHit(k, t) == 4 * FindLongestMatchSize(k, t) >= 3 * Max(1, Len(k))

\* the two tests of match_keywords for every keyword and text, once each
HitTable ==
    [t \in TextIds |->
        [k \in KeywordUniverse |->
            [sub |-> SubstringHit(k, NormText[t]), fuzzy |-> FuzzyHit(k, NormText[t])]]]

\* [k.lower() for k in keywords if k.strip()]
LowerNonBlank(keywords) ==
    LET kept == SelectSeq(keywords, LAMBDA k : Strip(k) # <<>>)
    IN [i \in DOMAIN kept |-> Lower(kept[i])]

\* lines 85-94, given the tests of the text (hits) and the two keyword lists
\* lowercased and without blanks: the fuzzy test adds to matched, excluded
\* has the substring test alone
MatchFromHits(hits, inc, exc) ==
    [matched |-> Sorted({k \in Range(inc) : hits[k].sub}
                        \cup {k \in Range(inc) : hits[k].fuzzy}),
     excluded |-> Sorted({k \in Range(exc) : hits[k].sub})]

\* match_keywords(TextPool[t], include, exclude)
match_keywords(t, incl, excl) ==
    MatchFromHits(HitTable[t], LowerNonBlank(incl), LowerNonBlank(excl))

MaxMatchKeywords == 2

\* the keyword lists of direct calls: up to MaxMatchKeywords keywords
MatchLists ==
    UNION {[1..n -> MatchKeywordPool] : n \in 0..MaxMatchKeywords}

\* a call match_keywords(TextPool[t], include, exclude)
MatchKeywordsCall(t, inc, exc) ==
    /\ mk_pc = "start"
    /\ mk_pc' = "done"
    /\ mk_call' = [text |-> t, include |-> inc, exclude |-> exc]
    /\ mk_ret' = match_keywords(t, inc, exc)
    /\ UNCHANGED match_rest

\* the exclude lists of direct calls: those of the scorer, and one with a
\* keyword that some text holds only in part
MatchExcludeChoices ==
    ExcludeChoices \cup { << <<"E","-","M","o","b","i","l","i","t","y">> (* E-Mobility *), <<"c","a","s","i","n","o">> (* casino *), <<" ">> (*   *) >> }

MatchNext ==
    \E t \in TextIds, inc \in MatchLists, exc \in MatchExcludeChoices :
        MatchKeywordsCall(t, inc, exc)

---------------------------------------------------------------------------
(* keyword_match.py: _make_snippet and score_keyword_relevance *)

\* the URL of each page of the pool
PageUrl ==
    << "https://acme.com/", "https://acme.com/about", "https://acme.com/about-us",
       "https://acme.com/solutions", "https://acme.com/products",
       "https://acme.com/platform", "https://acme.com/contact",
       "https://acme.com/customers", "https://acme.com/cases",
       "https://acme.com/product-tour" >>

SnippetRadius == 80

\* text.find(sub): the first position of sub in text, from 0, or -1
Find(text, sub) ==
    IF Contains(text, sub)
    THEN (CHOOSE p \in 1..(Len(text) - Len(sub) + 1) :
            /\ OccursAt(sub, text, p)
            /\ \A q \in 1..(p - 1) : ~OccursAt(sub, text, q)) - 1
    ELSE -1

\* lines 215-219, with i = text.find(keyword.lower())
SnippetAt(text, keyword, i) ==
    IF i = -1
    THEN SubSeq(text, 1, Min(160, Len(text))) \o <<".",".",".">> (* ... *)
    ELSE (IF Max(i - SnippetRadius, 0) > 0 THEN <<".",".",".">> (* ... *) ELSE <<>>)
         \o SubSeq(text, Max(i - SnippetRadius, 0) + 1,
                   Min(i + Len(keyword) + SnippetRadius, Len(text)))
         \o (IF Min(i + Len(keyword) + SnippetRadius, Len(text)) < Len(text)
             THEN <<".",".",".">> (* ... *) ELSE <<>>)

\* _make_snippet(text, keyword)
_make_snippet(text, keyword) == SnippetAt(text, keyword, Find(text, Lower(keyword)))

\* _make_snippet for every text and keyword, once each
SnippetTable ==
    [t \in TextIds |-> [k \in KeywordUniverse |-> _make_snippet(TextPool[t], k)]]

\* page_hits that counts every match of the page, seen before or not
PageHitsRepeated(matched, seen) == matched

\* page_hits = sorted(set(res["matched"]) - all_matched)
PageHits(matched, seen) == Sorted(Range(matched) \ seen)

\* the loop state before the first page (lines 109-112)
ScanStart == [total_score |-> 0, evidence |-> <<>>, all_matched |-> {}, all_excluded |-> {}]

\* lines 121-124 that set total_score instead of adding to it
RecordHitsOverwriting(st, t, page_hits) ==
    IF page_hits # <<>>
    THEN [st EXCEPT
            !.total_score = 10 * Len(page_hits),
            !.all_matched = @ \cup Range(page_hits),
            !.evidence = Append(@, [url |-> PageUrl[t],
                                    snippet |-> SnippetTable[t][page_hits[1]],
                                    keywords |-> page_hits])]
    ELSE st

\* lines 120-124 without line 122: the hits are not added to all_matched
RecordHitsNotRemembered(st, t, page_hits) ==
    IF page_hits # <<>>
    THEN [st EXCEPT
            !.total_score = @ + 10 * Len(page_hits),
            !.evidence = Append(@, [url |-> PageUrl[t],
                                    snippet |-> SnippetTable[t][page_hits[1]],
                                    keywords |-> page_hits])]
    ELSE st

\* lines 120-124: the new hits of page t are scored, counted and recorded
RecordHits(st, t, page_hits) ==
    IF page_hits # <<>>
    THEN [st EXCEPT
            !.total_score = @ + 10 * Len(page_hits),
            !.all_matched = @ \cup Range(page_hits),
            !.evidence = Append(@, [url |-> PageUrl[t],
                                    snippet |-> SnippetTable[t][page_hits[1]],
                                    keywords |-> page_hits])]
    ELSE st

\* lines 116-126 with the page also left when it brings no new hit
ScanWithNewHitsOnly(st, t, res) ==
    IF PageHits(res.matched, st.all_matched) = <<>> THEN st
    ELSE [RecordHits(st, t, PageHits(res.matched, st.all_matched))
            EXCEPT !.all_excluded = @ \cup Range(res.excluded)]

\* lines 116-126, with res the result of match_keywords on page t
ScanWith(st, t, res) ==
    IF res.matched = <<>> THEN st
    ELSE [RecordHits(st, t, PageHits(res.matched, st.all_matched))
            EXCEPT !.all_excluded = @ \cup Range(res.excluded)]

\* one iteration of the loop of line 114 on page t, from the loop state st
ScanOne(st, t, inc, exc) == ScanWith(st, t, match_keywords(t, inc, exc))

EvidenceLimit == 5

\* the dict of lines 131-136 that keeps the last entries of evidence
ScoreResultLastEvidence(st) ==
    [score |-> Max(st.total_score - 5 * Cardinality(st.all_excluded), 0),
     evidence |-> SubSeq(st.evidence, Max(1, Len(st.evidence) - EvidenceLimit + 1),
                         Len(st.evidence)),
     matched_keywords |-> Sorted(st.all_matched),
     excluded_keywords |-> Sorted(st.all_excluded)]

\* the dict of lines 131-136 without the floor at 0
ScoreResultUnclamped(st) ==
    [score |-> st.total_score - 5 * Cardinality(st.all_excluded),
     evidence |-> SubSeq(st.evidence, 1, Min(EvidenceLimit, Len(st.evidence))),
     matched_keywords |-> Sorted(st.all_matched),
     excluded_keywords |-> Sorted(st.all_excluded)]

\* lines 128-136: the penalty and the dict returned, from the loop state st
ScoreResult(st) ==
    [score |-> Max(st.total_score - 5 * Cardinality(st.all_excluded), 0),
     evidence |-> SubSeq(st.evidence, 1, Min(EvidenceLimit, Len(st.evidence))),
     matched_keywords |-> Sorted(st.all_matched),
     excluded_keywords |-> Sorted(st.all_excluded)]

RECURSIVE ScanFrom(_, _, _, _)
ScanFrom(st, ps, inc, exc) ==
    IF ps = <<>> THEN st
    ELSE ScanFrom(ScanOne(st, Head(ps), inc, exc), Tail(ps), inc, exc)

\* score_keyword_relevance(pages, include, exclude), pages as text numbers
score_keyword_relevance(ps, inc, exc) ==
    ScoreResult(ScanFrom(ScanStart, ps, expand_keywords(inc),
                         expand_keywords(OrEmpty(exc))))

MaxPages == 2

\* in pool order, no page twice: a crawl of the site in which any page may
\* fail to load
InPoolOrder(ps) == \A i \in 1..(Len(ps) - 1) : ps[i] < ps[i + 1]

\* the page lists of the model: every list of at most MaxPages pages, and
\* every crawl of the site
PageListOK(ps) == Len(ps) <= MaxPages \/ InPoolOrder(ps)

\* the loop state held in the variables
ScanState ==
    [total_score |-> total_score, evidence |-> evidence,
     all_matched |-> all_matched, all_excluded |-> all_excluded]

\* the call: lines 106-112
ScoreCall(inc, exc) ==
    /\ sk_pc = "start"
    /\ sk_pc' = "loop"
    /\ include' = expand_keywords(inc)
    /\ exclude' = expand_keywords(OrEmpty(exc))
    /\ UNCHANGED <<pages, total_score, evidence, all_matched, all_excluded, sk_ret>>
    /\ UNCHANGED score_rest

\* the loop takes its next page, t
ScanPage(t) ==
    /\ sk_pc = "loop"
    /\ PageListOK(Append(pages, t))
    /\ pages' = Append(pages, t)
    /\ LET st == ScanOne(ScanState, t, include, exclude) IN
       /\ total_score' = st.total_score
       /\ evidence' = st.evidence
       /\ all_matched' = st.all_matched
       /\ all_excluded' = st.all_excluded
    /\ UNCHANGED <<sk_pc, include, exclude, sk_ret>>
    /\ UNCHANGED score_rest

\* the list is exhausted: lines 128-136
ScoreReturn ==
    /\ sk_pc = "loop"
    /\ sk_pc' = "done"
    /\ sk_ret' = ScoreResult(ScanState)
    /\ UNCHANGED <<include, exclude, pages, total_score, evidence, all_matched,
                   all_excluded>>
    /\ UNCHANGED score_rest

ScoreNext ==
    \/ \E inc \in IncludeChoices, exc \in ExcludeChoices : ScoreCall(inc, exc)
    \/ \E t \in TextIds : ScanPage(t)
    \/ ScoreReturn

---------------------------------------------------------------------------
(* resolve_domain_from_url_or_domain and flag_business *)

StartsWith(s, pre) == Len(s) >= Len(pre) /\ SubSeq(s, 1, Len(pre)) = pre

\* re.match(r"^https?://", s, re.I)
HasHttpScheme(s) ==
    StartsWith(Lower(s), <<"h","t","t","p",":","/","/">> (* http:// *)) \/ StartsWith(Lower(s), <<"h","t","t","p","s",":","/","/">> (* https:// *))

\* lines 43-44
WithScheme(s) == IF HasHttpScheme(s) THEN s ELSE <<"h","t","t","p","s",":","/","/">> (* https:// *) \o s

\* what follows the "//" of a url that has a scheme
AfterScheme(s) ==
    IF StartsWith(Lower(s), <<"h","t","t","p","s",":","/","/">> (* https:// *)) THEN SubSeq(s, 9, Len(s))
    ELSE SubSeq(s, 8, Len(s))

\* urlparse(s).netloc: up to the first of / ? #
NetlocOf(rest) ==
    SubSeq(rest, 1,
           Min(Len(rest),
               MaxOf({0} \cup {p \in 1..Len(rest) :
                                 \A q \in 1..p : rest[q] \notin {"/", "?", "#"}})))

\* urlparse raises ValueError on a netloc with one square bracket and not
\* the other
BracketError(netloc) == InSeq("[", netloc) # InSeq("]", netloc)

\* line 47
StripWww(host) ==
    IF StartsWith(host, <<"w","w","w",".">> (* www. *)) THEN SubSeq(host, 5, Len(host)) ELSE host

\* lines 45-49, s with its scheme
HostOf(netloc) ==
    IF BracketError(netloc) THEN None_ ELSE StripWww(Lower(netloc))

\* resolve_domain_from_url_or_domain(url_or_domain), for inputs without
\* tabs or newlines and without a bracketed host
resolve_domain_from_url_or_domain(u) ==
    IF OrEmpty(u) = <<>> THEN None_
    ELSE HostOf(NetlocOf(AfterScheme(WithScheme(Strip(u)))))

\* the inputs of the model
UrlPool ==
    { None_, <<>>, <<" "," ">> (*    *), <<"a","c","m","e",".","c","o","m">> (* acme.com *), <<" ","h","t","t","p","s",":","/","/","w","w","w",".","a","c","m","e",".","c","o","m","/","a","b","o","u","t"," ">> (*  https://www.acme.com/about  *),
      <<"H","T","T","P",":","/","/","A","C","M","E",".","c","o","m">> (* HTTP://ACME.com *), <<"h","t","t","p",":","/","/","W","W","W",".","A","c","m","e",".","c","o","m","?","x","=","1">> (* http://WWW.Acme.com?x=1 *), <<"h","t","t","p","s",":","/","/">> (* https:// *), <<"w","w","w",".">> (* www. *),
      <<"[","b","a","d">> (* [bad *) }

ThresholdPool == {-5, 0, 10, 20, 25}

FlagExcludeChoices == ExcludeChoices \cup {None_}

\* fetch_text_pages returns visible text, which _visible_text normalizes
\* (line 183): the pages that can come back are the normalized ones
FetchablePages == {t \in TextIds : NormText[t] = TextPool[t]}

MaxFetched == 2

\* the pages come back in the order of the crawl, any of them missing
FetchedLists ==
    {ps \in UNION {[1..n -> FetchablePages] : n \in 0..MaxFetched} : InPoolOrder(ps)}

\* line 157 with > for >=
FlagStrict(score, th) == score > th

\* line 157: scored["score"] >= threshold
Flag(score, th) == score >= th

\* line 151 with the flag computed from the score 0 as on line 157
UnresolvedByThreshold ==
    [flag |-> 0 >= threshold', score |-> 0, matched_keywords |-> <<>>,
     excluded_keywords |-> <<>>, evidence |-> <<>>, domain |-> None_]

\* line 151: the dict returned when the domain does not resolve
Unresolved ==
    [flag |-> FALSE, score |-> 0, matched_keywords |-> <<>>,
     excluded_keywords |-> <<>>, evidence |-> <<>>, domain |-> None_]

\* lines 156-163
FlagResult(res, th, d) ==
    [flag |-> Flag(res.score, th), score |-> res.score,
     matched_keywords |-> res.matched_keywords,
     excluded_keywords |-> res.excluded_keywords,
     evidence |-> res.evidence, domain |-> d]

\* the call up to the fetch: lines 149-151
FlagCall(u, inc, exc, th) ==
    /\ fl_pc = "start"
    /\ url_or_domain' = u
    /\ include_keywords' = inc
    /\ exclude_keywords' = exc
    /\ threshold' = th
    /\ dom' = resolve_domain_from_url_or_domain(u)
    /\ IF OrEmpty(dom') = <<>>
       THEN fl_pc' = "done" /\ fl_ret' = Unresolved
       ELSE fl_pc' = "fetch" /\ UNCHANGED fl_ret
    /\ UNCHANGED flag_rest

\* fetch_text_pages returned ps: lines 153-163
FlagScored(ps) ==
    /\ fl_pc = "fetch"
    /\ fl_pc' = "done"
    /\ fl_ret' = FlagResult(score_keyword_relevance(ps, include_keywords, exclude_keywords),
                            threshold, dom)
    /\ UNCHANGED <<url_or_domain, include_keywords, exclude_keywords, threshold, dom>>
    /\ UNCHANGED flag_rest

FlagNext ==
    \/ \E u \in UrlPool, inc \in IncludeChoices, exc \in FlagExcludeChoices,
          th \in ThresholdPool : FlagCall(u, inc, exc, th)
    \/ \E ps \in FetchedLists : FlagScored(ps)

---------------------------------------------------------------------------
(* swot.py: _tag_for_title and generate_swot_from_news *)

\* \w of the re module, on the characters of the model
WordChars == Range(LowerLetters) \cup Range(UpperLetters) \cup Range(Digits) \cup {"_"}

WordChar(c) == c \in WordChars

\* \b at position p of t: exactly one of t[p - 1], t[p] is a word character
\* (the ends of t count as non-word)
WordAt(t, p) == p \in DOMAIN t /\ WordChar(t[p])

Boundary(t, p) == WordAt(t, p - 1) # WordAt(t, p)

\* one alternative of a pattern: its characters ("LETTER" stands for the
\* class [a-z]), and whether \b stands before and after it.  An optional
\* suffix at the end of an alternative, as the s of raises?, plays no part in
\* a search and is left out; an optional or alternative part elsewhere is
\* written out.
Alt(lit, before, after) == [lit |-> lit, before |-> before, after |-> after]

\* _PATTERNS, lines 5-22: in a pattern \b binds to the alternative beside it,
\* the first or the last, except in weak_results where the group is between
\* the two \b
_PATTERNS ==
    << [tag |-> "funding",
        alts |-> << Alt(<<"r","a","i","s","e">> (* raise *), TRUE, FALSE), Alt(<<"r","a","i","s","e","d">> (* raised *), FALSE, FALSE),
                    Alt(<<"f","u","n","d","i","n","g">> (* funding *), FALSE, FALSE), Alt(<<"f","i","n","a","n","c","i","n","g">> (* financing *), FALSE, FALSE),
                    Alt(<<"s","e","r","i","e","s"," ">> (* series  *) \o <<"LETTER">>, FALSE, TRUE) >>],
       [tag |-> "mna",
        alts |-> << Alt(<<"a","c","q","u","i","r","e">> (* acquire *), TRUE, FALSE), Alt(<<"a","c","q","u","i","r","e","d">> (* acquired *), FALSE, FALSE),
                    Alt(<<"a","c","q","u","i","s","i","t","i","o","n">> (* acquisition *), FALSE, FALSE), Alt(<<"m","e","r","g","e","r">> (* merger *), FALSE, FALSE),
                    Alt(<<"m","e","r","g","e","s"," ","w","i","t","h">> (* merges with *), FALSE, FALSE), Alt(<<"t","a","k","e","o","v","e","r">> (* takeover *), FALSE, FALSE) >>],
       [tag |-> "partner",
        alts |-> << Alt(<<"p","a","r","t","n","e","r","s","h","i","p">> (* partnership *), TRUE, FALSE), Alt(<<"p","a","r","t","n","e","r","s"," ","w","i","t","h">> (* partners with *), FALSE, FALSE),
                    Alt(<<"c","o","l","l","a","b","o","r","a","t","e","s">> (* collaborates *), FALSE, FALSE), Alt(<<"c","o","l","l","a","b","o","r","a","t","i","o","n">> (* collaboration *), FALSE, FALSE),
                    Alt(<<"a","l","l","i","a","n","c","e">> (* alliance *), FALSE, FALSE) >>],
       [tag |-> "launch",
        alts |-> << Alt(<<"l","a","u","n","c","h">> (* launch *), TRUE, FALSE), Alt(<<"i","n","t","r","o","d","u","c","e","s">> (* introduces *), FALSE, FALSE),
                    Alt(<<"i","n","t","r","o","d","u","c","e","d">> (* introduced *), FALSE, FALSE), Alt(<<"r","o","l","l","s"," ","o","u","t">> (* rolls out *), FALSE, FALSE),
                    Alt(<<"u","n","v","e","i","l","s">> (* unveils *), FALSE, FALSE), Alt(<<"u","n","v","e","i","l","e","d">> (* unveiled *), FALSE, FALSE) >>],
       [tag |-> "expansion",
        alts |-> << Alt(<<"e","x","p","a","n","d">> (* expand *), TRUE, FALSE), Alt(<<"e","x","p","a","n","s","i","o","n">> (* expansion *), FALSE, FALSE),
                    Alt(<<"o","p","e","n","s"," ","n","e","w">> (* opens new *), FALSE, FALSE), Alt(<<"n","e","w"," ","o","f","f","i","c","e">> (* new office *), FALSE, FALSE),
                    Alt(<<"n","e","w"," ","p","l","a","n","t">> (* new plant *), FALSE, FALSE), Alt(<<"n","e","w"," ","f","a","c","t","o","r","y">> (* new factory *), FALSE, FALSE),
                    Alt(<<"n","e","w"," ","f","a","c","i","l","i","t","y">> (* new facility *), FALSE, FALSE), Alt(<<"n","e","w"," ","m","a","r","k","e","t">> (* new market *), FALSE, FALSE) >>],
       [tag |-> "strong_results",
        alts |-> << Alt(<<"r","e","c","o","r","d"," ","r","e","v","e","n","u","e">> (* record revenue *), TRUE, FALSE), Alt(<<"r","e","c","o","r","d"," ","p","r","o","f","i","t">> (* record profit *), TRUE, FALSE),
                    Alt(<<"r","e","c","o","r","d"," ","g","r","o","w","t","h">> (* record growth *), TRUE, FALSE),
                    Alt(<<"b","e","a","t"," ","e","x","p","e","c","t","a","t","i","o","n","s">> (* beat expectations *), FALSE, FALSE),
                    Alt(<<"b","e","a","t","s"," ","e","x","p","e","c","t","a","t","i","o","n","s">> (* beats expectations *), FALSE, FALSE),
                    Alt(<<"b","e","a","t"," ","e","s","t","i","m","a","t","e","s">> (* beat estimates *), FALSE, FALSE),
                    Alt(<<"b","e","a","t","s"," ","e","s","t","i","m","a","t","e","s">> (* beats estimates *), FALSE, FALSE) >>],
       [tag |-> "layoffs",
        alts |-> << Alt(<<"l","a","y","o","f","f">> (* layoff *), TRUE, FALSE), Alt(<<"c","u","t","s"," ","j","o","b","s">> (* cuts jobs *), FALSE, FALSE),
                    Alt(<<"j","o","b"," ","c","u","t","s">> (* job cuts *), FALSE, FALSE),
                    Alt(<<"w","o","r","k","f","o","r","c","e"," ","r","e","d","u","c","t","i","o","n">> (* workforce reduction *), FALSE, FALSE) >>],
       [tag |-> "weak_results",
        alts |-> << Alt(<<"l","o","s","s">> (* loss *), TRUE, TRUE), Alt(<<"d","e","c","l","i","n","e">> (* decline *), TRUE, TRUE),
                    Alt(<<"m","i","s","s"," ","e","s","t","i","m","a","t","e","s">> (* miss estimates *), TRUE, TRUE), Alt(<<"m","i","s","s","e","s"," ","e","s","t","i","m","a","t","e","s">> (* misses estimates *), TRUE, TRUE),
                    Alt(<<"m","i","s","s"," ","e","x","p","e","c","t","a","t","i","o","n","s">> (* miss expectations *), TRUE, TRUE),
                    Alt(<<"m","i","s","s","e","s"," ","e","x","p","e","c","t","a","t","i","o","n","s">> (* misses expectations *), TRUE, TRUE) >>],
       [tag |-> "lawsuit",
        alts |-> << Alt(<<"l","a","w","s","u","i","t">> (* lawsuit *), TRUE, FALSE), Alt(<<"s","u","e","d">> (* sued *), FALSE, FALSE),
                    Alt(<<"l","i","t","i","g","a","t","i","o","n">> (* litigation *), FALSE, FALSE), Alt(<<"c","l","a","s","s"," ","a","c","t","i","o","n">> (* class action *), FALSE, FALSE) >>],
       [tag |-> "regulatory",
        alts |-> << Alt(<<"f","i","n","e">> (* fine *), TRUE, FALSE), Alt(<<"p","e","n","a","l","t","y">> (* penalty *), FALSE, FALSE),
                    Alt(<<"s","a","n","c","t","i","o","n">> (* sanction *), FALSE, FALSE) >>],
       [tag |-> "recall",
        alts |-> << Alt(<<"r","e","c","a","l","l">> (* recall *), TRUE, FALSE), Alt(<<"s","a","f","e","t","y"," ","i","s","s","u","e">> (* safety issue *), FALSE, FALSE),
                    Alt(<<"d","e","f","e","c","t">> (* defect *), FALSE, FALSE) >>],
       [tag |-> "security",
        alts |-> << Alt(<<"d","a","t","a"," ","b","r","e","a","c","h">> (* data breach *), TRUE, FALSE), Alt(<<"c","y","b","e","r","a","t","t","a","c","k">> (* cyberattack *), FALSE, FALSE),
                    Alt(<<"r","a","n","s","o","m","w","a","r","e">> (* ransomware *), FALSE, FALSE),
                    Alt(<<"s","e","c","u","r","i","t","y"," ","i","n","c","i","d","e","n","t">> (* security incident *), FALSE, FALSE) >>],
       [tag |-> "supply",
        alts |-> << Alt(<<"s","u","p","p","l","y"," ","c","h","a","i","n"," ","d","i","s","r","u","p","t","i","o","n">> (* supply chain disruption *), TRUE, FALSE),
                    Alt(<<"s","h","o","r","t","a","g","e">> (* shortage *), FALSE, FALSE), Alt(<<"s","t","r","i","k","e">> (* strike *), FALSE, FALSE),
                    Alt(<<"u","n","i","o","n"," ","a","c","t","i","o","n">> (* union action *), FALSE, FALSE) >>] >>

\* under re.I a pattern character matches either case of itself
CharMatches(pc, c) ==
    IF pc = "LETTER" THEN c \in DOMAIN LowerOf \/ c \in {LowerOf[u] : u \in DOMAIN LowerOf}
    ELSE pc = LowerChar(c)

AltMatchesAt(alt, t, p) ==
    /\ p + Len(alt.lit) - 1 <= Len(t)
    /\ \A i \in DOMAIN alt.lit : CharMatches(alt.lit[i], t[p + i - 1])
    /\ alt.before => Boundary(t, p)
    /\ alt.after => Boundary(t, p + Len(alt.lit))

\* re.search(pat, t, flags=re.I) finds a match
Search(pat, t) ==
    \E a \in DOMAIN pat.alts : \E p \in DOMAIN t : AltMatchesAt(pat.alts[a], t, p)

\* the loop of lines 44-46 running to its end, the last match kept
LastTag(t, hits) ==
    IF hits = {} THEN "None"
    ELSE _PATTERNS[CHOOSE i \in hits : \A j \in hits : i >= j].tag

\* the loop of lines 44-46 on the lowercased title t: the tag of the first
\* pattern that matches, "None" when none does
FirstTag(t, hits) ==
    IF hits = {} THEN "None"
    ELSE _PATTERNS[CHOOSE i \in hits : \A j \in hits : i <= j].tag

\* _tag_for_title(title)
_tag_for_title(title) ==
    FirstTag(Lower(OrEmpty(title)),
             {i \in DOMAIN _PATTERNS : Search(_PATTERNS[i], Lower(OrEmpty(title)))})

Buckets == {"Strengths", "Weaknesses", "Opportunities", "Threats"}

\* _TAG_TO_SWOT, lines 25-40: primary and secondary bucket, "None" for none
_TAG_TO_SWOT ==
    [tag \in {_PATTERNS[i].tag : i \in DOMAIN _PATTERNS} |->
        CASE tag = "funding" -> <<"Strengths", "Opportunities">>
          [] tag = "mna" -> <<"Strengths", "Opportunities">>
          [] tag = "partner" -> <<"Strengths", "Opportunities">>
          [] tag = "launch" -> <<"Strengths", "Opportunities">>
          [] tag = "expansion" -> <<"Opportunities", "Strengths">>
          [] tag = "strong_results" -> <<"Strengths", "None">>
          [] tag = "layoffs" -> <<"Weaknesses", "Threats">>
          [] tag = "weak_results" -> <<"Weaknesses", "None">>
          [] tag = "lawsuit" -> <<"Threats", "Weaknesses">>
          [] tag = "regulatory" -> <<"Threats", "Weaknesses">>
          [] tag = "recall" -> <<"Weaknesses", "Threats">>
          [] tag = "security" -> <<"Threats", "Weaknesses">>
          [] tag = "supply" -> <<"Threats", "Weaknesses">>]

\* title[:240]
TitleLimit == 240

Title(n) == SubSeq(OrEmpty(n.title), 1, Min(TitleLimit, Len(OrEmpty(n.title))))

\* lines 63-70: the tag the kind gives, "None" when it gives none
KindTag(kind) ==
    IF Contains(kind, <<"f","u","n","d">> (* fund *)) THEN "funding"
    ELSE IF Contains(kind, <<"m","&","a">> (* m&a *)) \/ Contains(kind, <<"a","c","q","u","i","s","i","t","i","o","n">> (* acquisition *)) THEN "mna"
    ELSE IF Contains(kind, <<"e","x","p","a","n","s","i","o","n">> (* expansion *)) THEN "expansion"
    ELSE "None"

\* the tag of the title whatever the kind
TagTitleFirst(n) ==
    IF _tag_for_title(Title(n)) # "None" THEN _tag_for_title(Title(n))
    ELSE KindTag(Lower(OrEmpty(n.kind)))

\* lines 63-72: tag = tag or _tag_for_title(title)
TagOf(n) ==
    IF KindTag(Lower(OrEmpty(n.kind))) # "None" THEN KindTag(Lower(OrEmpty(n.kind)))
    ELSE _tag_for_title(Title(n))

\* lines 80-82: the title, then the date in brackets, then a dash and the
\* url, the last two when there is one
LineOf(n) ==
    Title(n)
    \o (IF OrEmpty(n.date) # <<>> THEN <<" ","(">> (*  ( *) \o n.date \o <<")">> (* ) *) ELSE <<>>)
    \o (IF OrEmpty(n.url) # <<>> THEN <<" ","EMDASH"," ">> \o n.url ELSE <<>>)

\* the news items of the model; an item is named by its position here.  A
\* missing key and a None value read the same through n.get(...) or "".
NewsItem(kind, title, url, date) ==
    [kind |-> kind, title |-> title, url |-> url, date |-> date]

LongTitle == <<"A","c","m","e"," ","e","x","p","a","n","d","s">> (* Acme expands *) \o <<" ","f","a","r"," ","f","a","r"," ","f","a","r"," ","f","a","r"," ","f","a","r"," ","f","a","r"," ","f","a","r"," ","f","a","r"," ","f","a","r"," ","f","a","r"," ","f","a","r"," ","f","a","r"," ","f","a","r"," ","f","a","r"," ","f","a","r"," ","f","a","r"," ","f","a","r"," ","f","a","r"," ","f","a","r"," ","f","a","r"," ","f","a","r"," ","f","a","r"," ","f","a","r"," ","f","a","r"," ","f","a","r"," ","f","a","r"," ","f","a","r"," ","f","a","r"," ","f","a","r"," ","f","a","r"," ","f","a","r"," ","f","a","r"," ","f","a","r"," ","f","a","r"," ","f","a","r"," ","f","a","r"," ","f","a","r"," ","f","a","r"," ","f","a","r"," ","f","a","r"," ","f","a","r"," ","f","a","r"," ","f","a","r"," ","f","a","r"," ","f","a","r"," ","f","a","r"," ","f","a","r"," ","f","a","r"," ","f","a","r"," ","f","a","r"," ","f","a","r"," ","f","a","r"," ","f","a","r"," ","f","a","r"," ","f","a","r"," ","f","a","r"," ","f","a","r">>

NewsPool ==
    << NewsItem(<<"F","u","n","d","i","n","g">> (* Funding *), <<"A","c","m","e"," ","r","a","i","s","e","s"," ","$","5","M"," ","S","e","r","i","e","s"," ","A">> (* Acme raises $5M Series A *),
                <<"h","t","t","p","s",":","/","/","n",".","e","x","a","m","p","l","e","/","a">> (* https://n.example/a *), <<"2","0","2","4","-","0","5","-","0","1">> (* 2024-05-01 *)),
       \* the same headline from another feed, unclassified
       NewsItem(None_, <<"A","c","m","e"," ","r","a","i","s","e","s"," ","$","5","M"," ","S","e","r","i","e","s"," ","A">> (* Acme raises $5M Series A *),
                <<"h","t","t","p","s",":","/","/","n",".","e","x","a","m","p","l","e","/","a">> (* https://n.example/a *), <<"2","0","2","4","-","0","5","-","0","1">> (* 2024-05-01 *)),
       \* and once more, classified as an expansion
       NewsItem(<<"E","x","p","a","n","s","i","o","n">> (* Expansion *), <<"A","c","m","e"," ","r","a","i","s","e","s"," ","$","5","M"," ","S","e","r","i","e","s"," ","A">> (* Acme raises $5M Series A *),
                <<"h","t","t","p","s",":","/","/","n",".","e","x","a","m","p","l","e","/","a">> (* https://n.example/a *), <<"2","0","2","4","-","0","5","-","0","1">> (* 2024-05-01 *)),
       NewsItem(<<"M","&","A">> (* M&A *), <<"A","c","m","e"," ","t","o"," ","b","u","y"," ","B","e","t","a">> (* Acme to buy Beta *), <<>>, None_),
       NewsItem(<<"O","t","h","e","r">> (* Other *), <<"A","c","m","e"," ","p","o","s","t","s"," ","r","e","c","o","r","d"," ","r","e","v","e","n","u","e">> (* Acme posts record revenue *), None_, <<"2","0","2","4","-","0","6","-","3","0">> (* 2024-06-30 *)),
       NewsItem(<<>>, <<"A","c","m","e"," ","a","n","n","o","u","n","c","e","s"," ","l","a","y","o","f","f","s">> (* Acme announces layoffs *), <<"h","t","t","p","s",":","/","/","n",".","e","x","a","m","p","l","e","/","l">> (* https://n.example/l *), <<>>),
       NewsItem(None_, <<"A","c","m","e"," ","s","u","e","d"," ","o","v","e","r"," ","d","e","f","e","c","t">> (* Acme sued over defect *), None_, None_),
       NewsItem(<<"O","t","h","e","r">> (* Other *), <<"A","c","m","e"," ","h","o","l","d","s"," ","a","n","n","u","a","l"," ","p","i","c","n","i","c">> (* Acme holds annual picnic *), <<"h","t","t","p","s",":","/","/","n",".","e","x","a","m","p","l","e","/","p">> (* https://n.example/p *), None_),
       \* no title at all
       NewsItem(<<"F","u","n","d","i","n","g">> (* Funding *), None_, None_, None_),
       \* two titles of 241 characters that differ in the last one
       NewsItem(None_, LongTitle \o <<"a">> (* a *), None_, None_),
       NewsItem(None_, LongTitle \o <<"b">> (* b *), None_, None_),
       \* a headline of the pool again, classified as an acquisition
       NewsItem(<<"A","c","q","u","i","s","i","t","i","o","n">> (* Acquisition *), <<"A","c","m","e"," ","s","u","e","d"," ","o","v","e","r"," ","d","e","f","e","c","t">> (* Acme sued over defect *), None_, None_) >>

NewsIds == DOMAIN NewsPool

\* tag and line of every item, once each
TagTable == [n \in NewsIds |-> TagOf(NewsPool[n])]

LineTable == [n \in NewsIds |-> LineOf(NewsPool[n])]

\* line 85 without the test
SeenNever(line, seen) == FALSE

\* line 85: line in seen_lines
Seen(line, seen) == line \in seen

\* lines 90 and 94 with <= for <
UnderCapInclusive(bucket, cap) == Len(bucket) <= cap

\* lines 90 and 94: len(swot[...]) < max_items_per_bucket
UnderCap(bucket, cap) == Len(bucket) < cap

\* lines 90-91 with the line put at the front of the bucket
AddPrimaryAtFront(sw, primary, line, cap) ==
    IF UnderCap(sw[primary], cap)
    THEN [sw EXCEPT ![primary] = <<line>> \o @]
    ELSE sw

\* lines 90-91
AddPrimary(sw, primary, line, cap) ==
    IF UnderCap(sw[primary], cap)
    THEN [sw EXCEPT ![primary] = Append(@, line)]
    ELSE sw

\* lines 94-95
AddSecondary(sw, primary, secondary, line, cap) ==
    IF secondary # "None" /\ secondary # primary /\ UnderCap(sw[secondary], cap)
    THEN [sw EXCEPT ![secondary] = Append(@, line)]
    ELSE sw

\* lines 76-95 with the secondary bucket tried only when the primary took
\* the line
AddLineSecondaryAfterPrimary(sw, pair, line, cap) ==
    IF UnderCap(sw[pair[1]], cap)
    THEN AddSecondary(AddPrimary(sw, pair[1], line, cap), pair[1], pair[2], line, cap)
    ELSE sw

\* lines 76-95 for a tagged item
AddLine(sw, pair, line, cap) ==
    AddSecondary(AddPrimary(sw, pair[1], line, cap), pair[1], pair[2], line, cap)

MaxCap == 2

MaxNews == 3

\* the call: lines 55-56
SwotCall(cap) ==
    /\ sw_pc = "start"
    /\ sw_pc' = "loop"
    /\ max_items_per_bucket' = cap
    /\ UNCHANGED <<news, swot, seen_lines>>
    /\ UNCHANGED swot_rest

\* one iteration of the loop of line 58, on item n
SwotItem(n) ==
    /\ sw_pc = "loop"
    /\ Len(news) < MaxNews
    /\ news' = Append(news, n)
    /\ IF TagTable[n] = "None" \/ Seen(LineTable[n], seen_lines)
       THEN UNCHANGED <<swot, seen_lines>>
       ELSE /\ seen_lines' = seen_lines \cup {LineTable[n]}
            /\ swot' = AddLine(swot, _TAG_TO_SWOT[TagTable[n]], LineTable[n],
                               max_items_per_bucket)
    /\ UNCHANGED <<sw_pc, max_items_per_bucket>>
    /\ UNCHANGED swot_rest

\* the list is exhausted: line 97 returns swot
SwotReturn ==
    /\ sw_pc = "loop"
    /\ sw_pc' = "done"
    /\ UNCHANGED <<max_items_per_bucket, news, swot, seen_lines>>
    /\ UNCHANGED swot_rest

SwotNext ==
    \/ \E cap \in 0..MaxCap : SwotCall(cap)
    \/ \E n \in NewsIds : SwotItem(n)
    \/ SwotReturn

---------------------------------------------------------------------------
(* contacts.py: _score_title *)

\* an alternative between two \b
Word(lit) == Alt(lit, TRUE, TRUE)

\* _TARGET_PATTERNS, lines 230-236: every alternative stands between two \b;
\* co-?founder is written out; gaps holds the alternative
\* \bvice president.*sales\b as its two ends
_TARGET_PATTERNS ==
    << [alts |-> << Word(<<"c","e","o">> (* ceo *)), Word(<<"c","h","i","e","f"," ","e","x","e","c","u","t","i","v","e">> (* chief executive *)) >>, gaps |-> << >>],
       [alts |-> << Word(<<"f","o","u","n","d","e","r">> (* founder *)), Word(<<"c","o","f","o","u","n","d","e","r">> (* cofounder *)), Word(<<"c","o","-","f","o","u","n","d","e","r">> (* co-founder *)) >>,
        gaps |-> << >>],
       [alts |-> << Word(<<"h","e","a","d"," ","o","f"," ","s","a","l","e","s">> (* head of sales *)), Word(<<"v","p"," ","o","f"," ","s","a","l","e","s">> (* vp of sales *)),
                    Word(<<"s","a","l","e","s"," ","d","i","r","e","c","t","o","r">> (* sales director *)), Word(<<"g","l","o","b","a","l"," ","s","a","l","e","s">> (* global sales *)) >>,
        gaps |-> << << <<"v","i","c","e"," ","p","r","e","s","i","d","e","n","t">> (* vice president *), <<"s","a","l","e","s">> (* sales *) >> >>],
       [alts |-> << Word(<<"m","a","r","k","e","t","i","n","g"," ","m","a","n","a","g","e","r">> (* marketing manager *)), Word(<<"h","e","a","d"," ","o","f"," ","m","a","r","k","e","t","i","n","g">> (* head of marketing *)),
                    Word(<<"c","m","o">> (* cmo *)), Word(<<"c","h","i","e","f"," ","m","a","r","k","e","t","i","n","g">> (* chief marketing *)),
                    Word(<<"m","a","r","k","e","t","i","n","g"," ","d","i","r","e","c","t","o","r">> (* marketing director *)) >>,
        gaps |-> << >>],
       [alts |-> << Word(<<"h","e","a","d"," ","o","f"," ","p","r","o","c","u","r","e","m","e","n","t">> (* head of procurement *)), Word(<<"p","r","o","c","u","r","e","m","e","n","t"," ","m","a","n","a","g","e","r">> (* procurement manager *)),
                    Word(<<"p","u","r","c","h","a","s","i","n","g"," ","m","a","n","a","g","e","r">> (* purchasing manager *)), Word(<<"s","o","u","r","c","i","n","g"," ","m","a","n","a","g","e","r">> (* sourcing manager *)),
                    Word(<<"c","a","t","e","g","o","r","y"," ","m","a","n","a","g","e","r">> (* category manager *)), Word(<<"h","e","a","d"," ","o","f"," ","p","u","r","c","h","a","s","i","n","g">> (* head of purchasing *)) >>,
        gaps |-> << >>] >>

\* \b first .* second \b matches in t: first at p, second at q after it, and
\* no newline between the two (. does not match one)
GapMatchesAt(gap, t, p, q) ==
    /\ AltMatchesAt(Alt(gap[1], TRUE, FALSE), t, p)
    /\ q >= p + Len(gap[1])
    /\ AltMatchesAt(Alt(gap[2], FALSE, TRUE), t, q)
    /\ \A i \in (p + Len(gap[1]))..(q - 1) : t[i] # "NL"

\* re.search(pat, t) finds a match, line 268
TargetSearch(pat, t) ==
    \/ Search(pat, t)
    \/ \E g \in DOMAIN pat.gaps : \E p \in DOMAIN t :
           /\ AltMatchesAt(Alt(pat.gaps[g][1], TRUE, FALSE), t, p)
           /\ \E q \in DOMAIN t : GapMatchesAt(pat.gaps[g], t, p, q)

TargetHits(t) == {i \in DOMAIN _TARGET_PATTERNS : TargetSearch(_TARGET_PATTERNS[i], t)}

\* lines 267-269 with a break after the first hit
TargetScoreFirstOnly(t) == IF TargetHits(t) = {} THEN 0 ELSE 15

\* lines 266-269: 15 for each pattern that matches
TargetScore(t) == 15 * Cardinality(TargetHits(t))

Weight(k, w) == [k |-> k, w |-> w]

\* _SENIORITY_WEIGHTS, lines 239-245
_SENIORITY_WEIGHTS ==
    << Weight(<<"c","h","i","e","f">> (* chief *), 6), Weight(<<"c","-","l","e","v","e","l">> (* c-level *), 6), Weight(<<"c","m","o">> (* cmo *), 6),
       Weight(<<"c","e","o">> (* ceo *), 10), Weight(<<"v","p">> (* vp *), 5), Weight(<<"v","i","c","e"," ","p","r","e","s","i","d","e","n","t">> (* vice president *), 5),
       Weight(<<"d","i","r","e","c","t","o","r">> (* director *), 4), Weight(<<"h","e","a","d">> (* head *), 6), Weight(<<"l","e","a","d">> (* lead *), 3),
       Weight(<<"m","a","n","a","g","e","r">> (* manager *), 3), Weight(<<"g","l","o","b","a","l">> (* global *), 2), Weight(<<"s","e","n","i","o","r">> (* senior *), 2),
       Weight(<<"f","o","u","n","d","e","r">> (* founder *), 8), Weight(<<"c","o","f","o","u","n","d","e","r">> (* cofounder *), 7), Weight(<<"c","o","-","f","o","u","n","d","e","r">> (* co-founder *), 7) >>

\* _DEPT_WEIGHTS, lines 247-255
_DEPT_WEIGHTS ==
    << Weight(<<"s","a","l","e","s">> (* sales *), 8), Weight(<<"m","a","r","k","e","t","i","n","g">> (* marketing *), 6), Weight(<<"p","r","o","c","u","r","e","m","e","n","t">> (* procurement *), 8),
       Weight(<<"p","u","r","c","h","a","s","i","n","g">> (* purchasing *), 8), Weight(<<"s","o","u","r","c","i","n","g">> (* sourcing *), 7), Weight(<<"s","u","p","p","l","y"," ","c","h","a","i","n">> (* supply chain *), 6),
       Weight(<<"c","a","t","e","g","o","r","y">> (* category *), 5) >>

\* the loops of lines 272-277: the weights of the first n entries of the
\* table whose key is in t
RECURSIVE BoostFrom(_, _, _)
BoostFrom(table, t, n) ==
    IF n = 0 THEN 0
    ELSE BoostFrom(table, t, n - 1)
         + (IF Contains(t, table[n].k) THEN table[n].w ELSE 0)

Boost(table, t) == BoostFrom(table, t, Len(table))

\* line 280
JuniorTerms == { <<"i","n","t","e","r","n">> (* intern *), <<"a","s","s","i","s","t","a","n","t">> (* assistant *), <<"c","o","o","r","d","i","n","a","t","o","r">> (* coordinator *), <<"s","t","u","d","e","n","t">> (* student *), <<"t","r","a","i","n","e","e">> (* trainee *) }

\* lines 280-281 with the penalty taken for each term
JuniorPenaltyPerTerm(t) == 5 * Cardinality({x \in JuniorTerms : Contains(t, x)})

\* lines 280-281
JuniorPenalty(t) == IF \E x \in JuniorTerms : Contains(t, x) THEN 5 ELSE 0

\* lines 263-283 on the lowercased title t
ScoreLowered(t) ==
    TargetScore(t) + Boost(_SENIORITY_WEIGHTS, t) + Boost(_DEPT_WEIGHTS, t)
    - JuniorPenalty(t)

\* _score_title(title)
_score_title(title) ==
    IF OrEmpty(title) = <<>> THEN 0 ELSE ScoreLowered(Lower(title))

\* the phrases the titles of the model are made of
TitlePhrases ==
    << <<"C","h","i","e","f"," ","E","x","e","c","u","t","i","v","e"," ","O","f","f","i","c","e","r">> (* Chief Executive Officer *), <<"M","a","r","k","e","t","i","n","g"," ","C","o","o","r","d","i","n","a","t","o","r">> (* Marketing Coordinator *), <<"C","E","O">> (* CEO *),
       <<"C","o","-","F","o","u","n","d","e","r">> (* Co-Founder *), <<"c","o","f","o","u","n","d","e","r">> (* cofounder *), <<"V","P"," ","o","f"," ","S","a","l","e","s">> (* VP of Sales *), <<"V","i","c","e"," ","P","r","e","s","i","d","e","n","t">> (* Vice President *),
       <<"G","l","o","b","a","l"," ","L","e","a","d">> (* Global Lead *), <<"S","a","l","e","s">> (* Sales *), <<"C","M","O">> (* CMO *), <<"H","e","a","d"," ","o","f"," ","P","r","o","c","u","r","e","m","e","n","t">> (* Head of Procurement *),
       <<"C","a","t","e","g","o","r","y"," ","M","a","n","a","g","e","r">> (* Category Manager *), <<"S","e","n","i","o","r"," ","D","i","r","e","c","t","o","r">> (* Senior Director *), <<"C","-","L","e","v","e","l">> (* C-Level *),
       <<"S","u","p","p","l","y"," ","C","h","a","i","n">> (* Supply Chain *), <<"H","e","a","d","h","u","n","t","e","r">> (* Headhunter *), <<"S","t","u","d","e","n","t"," ","T","r","a","i","n","e","e">> (* Student Trainee *),
       <<"M","a","r","k","e","t","i","n","g"," ","M","a","n","a","g","e","r">> (* Marketing Manager *), <<"A","s","s","i","s","t","a","n","t"," ","M","a","n","a","g","e","r">> (* Assistant Manager *) >>

MaxPhrases == 2

\* " ".join(...) of the phrases numbered in ids
RECURSIVE JoinPhrases(_, _)
JoinPhrases(pool, ids) ==
    IF ids = <<>> THEN <<>>
    ELSE IF Len(ids) = 1 THEN pool[ids[1]]
    ELSE pool[ids[1]] \o <<" ">> (*   *) \o JoinPhrases(pool, Tail(ids))

\* the titles of the model: None, and up to MaxPhrases phrases
Titles ==
    {None_} \cup {JoinPhrases(TitlePhrases, ids) :
                    ids \in UNION {[1..n -> DOMAIN TitlePhrases] : n \in 0..MaxPhrases}}

\* a call of _score_title
ScoreTitleCall(title) ==
    /\ st_pc = "start"
    /\ st_pc' = "called"
    /\ st_title' = title
    /\ UNCHANGED st_ret
    /\ UNCHANGED title_rest

\* lines 260-283: the score is computed and returned
ScoreTitleReturn ==
    /\ st_pc = "called"
    /\ st_pc' = "done"
    /\ st_ret' = _score_title(st_title)
    /\ UNCHANGED st_title
    /\ UNCHANGED title_rest

TitleNext ==
    \/ \E title \in Titles : ScoreTitleCall(title)
    \/ ScoreTitleReturn

---------------------------------------------------------------------------
(* contacts.py: _dedupe_by_email and filter_contacts_by_title *)

\* a contact record; title and email read as None when the key is missing,
\* score is the set of the values the contact carries under "score": one or none
Contact(title, email, score) == [title |-> title, email |-> email, score |-> score]

\* the contacts of the model; a contact is named by its position here
ContactPool ==
    << Contact(<<"I","n","t","e","r","n">> (* Intern *), <<"c","e","o","@","a","c","m","e",".","c","o","m">> (* ceo@acme.com *), {}),
       \* carries a score from an earlier run
       Contact(<<" ","F","o","u","n","d","e","r"," ">> (*  Founder  *), <<"A","n","a","@","A","c","m","e",".","c","o","m">> (* Ana@Acme.com *), {99}),
       \* the same mailbox in another case, with a better title
       Contact(<<"H","e","a","d"," ","o","f"," ","S","a","l","e","s">> (* Head of Sales *), <<"A","N","A","@","a","c","m","e",".","c","o","m">> (* ANA@acme.com *), {}),
       Contact(<<"S","a","l","e","s"," ","I","n","t","e","r","n">> (* Sales Intern *), <<"s","a","l","e","s","@","a","c","m","e",".","c","o","m">> (* sales@acme.com *), {-3}),
       \* no title, and the mailbox of the two contacts before
       Contact(None_, <<"a","n","a","@","A","C","M","E",".","c","o","m">> (* ana@ACME.com *), {}),
       Contact(<<"F","o","u","n","d","e","r">> (* Founder *), <<"e","v","e","@","a","c","m","e",".","c","o","m">> (* eve@acme.com *), {}),
       \* no email
       Contact(<<"C","E","O">> (* CEO *), None_, {}),
       \* the mailbox of the first contact after a blank
       Contact(<<"C","E","O">> (* CEO *), <<" ","C","E","O","@","a","c","m","e",".","c","o","m">> (*  CEO@acme.com *), {}),
       \* an alias followed by more than the at sign
       Contact(<<"V","P"," ","M","a","r","k","e","t","i","n","g">> (* VP Marketing *), <<"m","a","r","k","e","t","i","n","g",".","t","e","a","m","@","a","c","m","e",".","c","o","m">> (* marketing.team@acme.com *), {}) >>

ContactIds == DOMAIN ContactPool

\* line 308
AliasPrefixes ==
    { <<"c","e","o","@">> (* ceo@ *), <<"f","o","u","n","d","e","r","@">> (* founder@ *), <<"s","a","l","e","s","@">> (* sales@ *), <<"m","a","r","k","e","t","i","n","g","@">> (* marketing@ *), <<"p","r","o","c","u","r","e","m","e","n","t","@">> (* procurement@ *),
      <<"p","u","r","c","h","a","s","i","n","g","@">> (* purchasing@ *), <<"s","o","u","r","c","i","n","g","@">> (* sourcing@ *) }

\* lines 307-309: em.startswith((...)) on the lowercased email
AliasBonus(email) ==
    IF \E a \in AliasPrefixes : StartsWith(Lower(OrEmpty(email)), a) THEN 2 ELSE 0

\* lines 304-309 with the score the contact carries kept when it has one
ContactScoreInherited(c) ==
    IF c.score # {} THEN CHOOSE v \in c.score : TRUE
    ELSE _score_title(Strip(OrEmpty(c.title))) + AliasBonus(c.email)

\* lines 304-309: the score of contact c
ContactScore(c) == _score_title(Strip(OrEmpty(c.title))) + AliasBonus(c.email)

\* the score of every contact of the pool, once each
ContactScoreTable == [c \in ContactIds |-> ContactScore(ContactPool[c])]

\* line 289 without lower()
EmailKeyCaseKept(email) == Strip(OrEmpty(email))

\* line 289: (c.get("email") or "").lower().strip()
EmailKey(email) == Strip(Lower(OrEmpty(email)))

EmailKeyTable == [c \in ContactIds |-> EmailKey(ContactPool[c].email)]

\* lines 288-293 with the later entry of an email put in place of the earlier
DedupeOneLastWins(st, e) ==
    IF EmailKeyTable[e.c] = <<>> THEN st
    ELSE IF EmailKeyTable[e.c] \in st.seen
    THEN [st EXCEPT !.out = [i \in DOMAIN st.out |->
                                IF EmailKeyTable[st.out[i].c] = EmailKeyTable[e.c]
                                THEN e ELSE st.out[i]]]
    ELSE [seen |-> st.seen \cup {EmailKeyTable[e.c]}, out |-> Append(st.out, e)]

\* lines 288-293: one iteration, st the seen set and the out list
DedupeOne(st, e) ==
    IF EmailKeyTable[e.c] = <<>> \/ EmailKeyTable[e.c] \in st.seen THEN st
    ELSE [seen |-> st.seen \cup {EmailKeyTable[e.c]}, out |-> Append(st.out, e)]

RECURSIVE DedupeFrom(_, _)
DedupeFrom(st, list) ==
    IF list = <<>> THEN st ELSE DedupeFrom(DedupeOne(st, Head(list)), Tail(list))

\* _dedupe_by_email(contacts)
_dedupe_by_email(list) == DedupeFrom([seen |-> {}, out |-> <<>>], list).out

\* line 316 without reverse=True
BeforeAscending(list, i, j) ==
    list[i].score < list[j].score \/ (list[i].score = list[j].score /\ i < j)

\* list[i] comes before list[j] after list.sort(key=score, reverse=True): the
\* sort is stable, and stays so when reversed
Before(list, i, j) ==
    list[i].score > list[j].score \/ (list[i].score = list[j].score /\ i < j)

\* the place of list[i] after the sort
PlaceOf(list, i) == 1 + Cardinality({j \in DOMAIN list : Before(list, j, i)})

\* line 316
SortByScore(list) ==
    [r \in DOMAIN list |-> list[CHOOSE i \in DOMAIN list : PlaceOf(list, i) = r]]

\* list[:n], n >= 0
Take(list, n) == SubSeq(list, 1, Min(n, Len(list)))

TopNPool == {0, 1, 2, 10}

MinScorePool == {-5, 1, 24}

MaxContacts == 3

\* the call: line 302
FilterCall(n, m) ==
    /\ fc_pc = "start"
    /\ fc_pc' = "loop"
    /\ top_n' = n
    /\ min_score' = m
    /\ UNCHANGED <<contacts, scored, fc_ret>>
    /\ UNCHANGED filter_rest

\* one iteration of the loop of line 303, on contact c: the entry appended
\* is the copy c2, with the place of c in the list for its identity
FilterItem(c) ==
    /\ fc_pc = "loop"
    /\ Len(contacts) < MaxContacts
    /\ contacts' = Append(contacts, c)
    /\ scored' = IF ContactScoreTable[c] >= min_score
                 THEN Append(scored, [pos |-> Len(contacts) + 1, c |-> c,
                                      score |-> ContactScoreTable[c]])
                 ELSE scored
    /\ UNCHANGED <<fc_pc, top_n, min_score, fc_ret>>
    /\ UNCHANGED filter_rest

\* the list is exhausted: lines 315-317
FilterReturn ==
    /\ fc_pc = "loop"
    /\ fc_pc' = "done"
    /\ fc_ret' = Take(SortByScore(_dedupe_by_email(scored)), top_n)
    /\ UNCHANGED <<contacts, top_n, min_score, scored>>
    /\ UNCHANGED filter_rest

FilterNext ==
    \/ \E n \in TopNPool, m \in MinScorePool : FilterCall(n, m)
    \/ \E c \in ContactIds : FilterItem(c)
    \/ FilterReturn

---------------------------------------------------------------------------
(* swot.py: _tag_for_title called on its own *)

\* the parts headlines are made of
HeadlineParts ==
    << <<"A","c","m","e"," ","r","a","i","s","e","s"," ","$","1","0","M"," ","S","e","r","i","e","s"," ","B">> (* Acme raises $10M Series B *), <<"A","c","m","e"," ","t","o"," ","a","c","q","u","i","r","e"," ","B","e","t","a"," ","C","o","r","p">> (* Acme to acquire Beta Corp *),
       <<"P","a","r","t","n","e","r","s"," ","w","i","t","h"," ","G","a","m","m","a">> (* Partners with Gamma *), <<"L","A","U","N","C","H","E","S">> (* LAUNCHES *), <<"R","e","c","o","r","d"," ","P","r","o","f","i","t">> (* Record Profit *),
       <<"l","a","y","o","f","f","s">> (* layoffs *), <<"n","e","t"," ","l","o","s","s">> (* net loss *), <<"s","u","e","d">> (* sued *), <<"R","a","n","s","o","m","w","a","r","e">> (* Ransomware *),
       \* sued and raised inside a word, fine and loss inside a word
       <<"i","s","s","u","e","d">> (* issued *), <<"p","r","a","i","s","e","d">> (* praised *), <<"r","e","f","i","n","e","r","y">> (* refinery *), <<"g","l","o","s","s","y">> (* glossy *),
       <<"S","e","r","i","e","s"," ","9">> (* Series 9 *) >>

MaxParts == 2

\* the headlines of the model: None, and up to MaxParts parts
Headlines ==
    {None_} \cup {JoinPhrases(HeadlineParts, ids) :
                    ids \in UNION {[1..n -> DOMAIN HeadlineParts] : n \in 0..MaxParts}}

\* a call of _tag_for_title
TagCall(title) ==
    /\ tg_pc = "start"
    /\ tg_pc' = "done"
    /\ tg_title' = title
    /\ tg_ret' = _tag_for_title(title)
    /\ UNCHANGED tag_rest

TagNext == \E title \in Headlines : TagCall(title)

---------------------------------------------------------------------------
(* contacts.py: two calls of filter_contacts_by_title running at once on one
   list.  The caller's list and dicts and the module-level tables are the
   objects the calls share; everything else a call touches is local to it. *)

CallIds == {1, 2}

\* the module-level tables _score_title reads
ModuleTables == [seniority |-> _SENIORITY_WEIGHTS, dept |-> _DEPT_WEIGHTS]

\* the locals of a call at line 302
NewCall(n, m) ==
    [pc |-> "loop", i |-> 0, top_n |-> n, min_score |-> m, scored |-> <<>>, ret |-> <<>>]

\* a dict of the caller's list: the contact it holds and what is under "score"
HeapContact(c) == [c |-> c, score |-> ContactPool[c].score]

\* lines 304-309 on the contact c, the weight tables read where they are
ScoreReading(tables, c) ==
    (IF Strip(OrEmpty(c.title)) = <<>> THEN 0
     ELSE TargetScore(Lower(Strip(c.title)))
          + Boost(tables.seniority, Lower(Strip(c.title)))
          + Boost(tables.dept, Lower(Strip(c.title)))
          - JuniorPenalty(Lower(Strip(c.title))))
    + AliasBonus(c.email)

\* lines 311-312 with the score written into the caller's dict, no copy made
ListAfterItemInPlace(list, i, score) == [list EXCEPT ![i].score = {score}]

\* lines 311-312 seen from the caller's list: c2 = dict(c) is a new dict and
\* the score goes into it, the dict of the list stays as it is
ListAfterItem(list, i, score) == list

\* lines 310-313: the list scored after the item at place i with this score
ScoredAfterItem(call, c, i, score) ==
    IF score >= call.min_score
    THEN Append(call.scored, [pos |-> i, c |-> c, score |-> score])
    ELSE call.scored

\* the arguments of the calls
ArgPool == { [top_n |-> 10, min_score |-> 1], [top_n |-> 1, min_score |-> -5] }

MaxShared == 2

SharedLists == UNION {[1..n -> ContactIds] : n \in 0..MaxShared}

\* the caller builds the list and starts the two calls on it
ConcurrentStart(list, a1, a2) ==
    /\ cc_pc = "start"
    /\ cc_pc' = "run"
    /\ caller_contacts' = [i \in DOMAIN list |-> HeapContact(list[i])]
    /\ given_contacts' = [i \in DOMAIN list |-> HeapContact(list[i])]
    /\ calls' = [k \in CallIds |-> IF k = 1 THEN NewCall(a1.top_n, a1.min_score)
                                   ELSE NewCall(a2.top_n, a2.min_score)]
    /\ UNCHANGED weight_tables
    /\ UNCHANGED concurrent_rest

\* call k runs one iteration of the loop of line 303
ConcurrentItem(k) ==
    /\ cc_pc = "run"
    /\ calls[k].pc = "loop"
    /\ calls[k].i < Len(caller_contacts)
    /\ calls' = [calls EXCEPT
           ![k].i = @ + 1,
           ![k].scored = ScoredAfterItem(calls[k], caller_contacts[calls[k].i + 1].c,
                             calls[k].i + 1,
                             ScoreReading(weight_tables,
                                 ContactPool[caller_contacts[calls[k].i + 1].c]))]
    /\ caller_contacts' = ListAfterItem(caller_contacts, calls[k].i + 1,
                             ScoreReading(weight_tables,
                                 ContactPool[caller_contacts[calls[k].i + 1].c]))
    /\ UNCHANGED <<cc_pc, given_contacts, weight_tables>>
    /\ UNCHANGED concurrent_rest

\* call k leaves the loop and returns: lines 315-317, all on its own list
ConcurrentReturn(k) ==
    /\ cc_pc = "run"
    /\ calls[k].pc = "loop"
    /\ calls[k].i = Len(caller_contacts)
    /\ calls' = [calls EXCEPT
           ![k].pc = "done",
           ![k].ret = Take(SortByScore(_dedupe_by_email(calls[k].scored)), calls[k].top_n)]
    /\ UNCHANGED <<cc_pc, caller_contacts, given_contacts, weight_tables>>
    /\ UNCHANGED concurrent_rest

ConcurrentNext ==
    \/ \E list \in SharedLists, a1, a2 \in ArgPool : ConcurrentStart(list, a1, a2)
    \/ \E k \in CallIds : ConcurrentItem(k)
    \/ \E k \in CallIds : ConcurrentReturn(k)

---------------------------------------------------------------------------
(* market_graph.py: build_market_graph *)

\* nx.Graph(): no node, no edge
EmptyGraph == [nodes |-> << >>, edges |-> {}]

\* name in G
InGraph(g, name) == name \in DOMAIN g.nodes

\* G.add_node(name, name=name, website=website, seed=seed_flag)
AddNode(g, name, website, seed_flag) ==
    [g EXCEPT !.nodes =
        [x \in DOMAIN g.nodes \cup {name} |->
            IF x = name THEN [name |-> name, website |-> website, seed |-> seed_flag]
            ELSE g.nodes[x]]]

\* lines 56-57: the website of a node that has none is filled in
Enrich(g, name, website) ==
    IF website # None_ /\ g.nodes[name].website = None_
    THEN [g EXCEPT !.nodes[name].website = website]
    ELSE g

\* lines 52-57
NodeFor(g, name, website) ==
    IF ~InGraph(g, name) THEN AddNode(g, name, website, FALSE)
    ELSE Enrich(g, name, website)

\* lines 59-60: the edge between company and name, once
AddEdge(g, company, name) == [g EXCEPT !.edges = @ \cup {{company, name}}]

Peer(name, website) == [name |-> name, website |-> website]

\* the dicts get_similar returns in the model
PeerPool ==
    { Peer(<<"B","o","l","t">> (* Bolt *), None_), Peer(<<" ","B","o","l","t"," ">> (*  Bolt  *), <<"b","o","l","t",".","e","x","a","m","p","l","e"," ">> (* bolt.example  *)),
      Peer(<<"C","o","r","e">> (* Core *), <<"c","o","r","e",".","e","x","a","m","p","l","e">> (* core.example *)), Peer(<<"A","c","m","e">> (* Acme *), <<" ">> (*   *)),
      Peer(<<"D","y","n">> (* Dyn *), None_), Peer(None_, None_) }

\* name = (p.get("name") or "").strip(), once for each dict
PeerNames == [p \in PeerPool |-> Strip(OrEmpty(p.name))]

PeerName(p) == PeerNames[p]

\* website = (p.get("website") or "").strip() or None, once for each dict
PeerWebsites ==
    [p \in PeerPool |->
        IF Strip(OrEmpty(p.website)) = <<>> THEN None_ ELSE Strip(OrEmpty(p.website))]

PeerWebsite(p) == PeerWebsites[p]

\* lines 62-64 without the test of seen
EnterAlways(st, name, depth) ==
    [st EXCEPT !.seen = @ \cup {name},
               !.frontier = Append(@, <<name, depth + 1>>),
               !.log = Append(@, name)]

\* lines 62-64: a name not yet seen is put into seen and into frontier
Enter(st, name, depth) ==
    IF name \notin st.seen
    THEN [st EXCEPT !.seen = @ \cup {name},
                    !.frontier = Append(@, <<name, depth + 1>>),
                    !.log = Append(@, name)]
    ELSE st

\* lines 47-64: one peer p of company, on the state st = [g, frontier, seen, log]
PeerStep(st, company, depth, p) ==
    IF PeerName(p) = <<>> \/ PeerName(p) = company THEN st
    ELSE Enter([st EXCEPT !.g = AddEdge(NodeFor(@, PeerName(p), PeerWebsite(p)),
                                        company, PeerName(p))],
               PeerName(p), depth)

RECURSIVE PeersFrom(_, _, _, _)
PeersFrom(st, company, depth, peers) ==
    IF peers = <<>> THEN st
    ELSE PeersFrom(PeerStep(st, company, depth, Head(peers)), company, depth,
                   Tail(peers))

\* list[:n] of Python
SliceTo(list, n) ==
    IF n >= 0 THEN SubSeq(list, 1, Min(n, Len(list)))
    ELSE SubSeq(list, 1, Max(Len(list) + n, 0))

\* line 44: get_similar(company)[:max_per_company] if max_per_company else
\* get_similar(company)
Peers(reply, per_company) ==
    IF per_company # 0 THEN SliceTo(reply, per_company) ELSE reply

\* the longest list get_similar returns in the model
MaxPeers == 2

Replies == UNION {[1..n -> PeerPool] : n \in 0..MaxPeers}

\* the seeds, the depths and the caps per company of the model
SeedPool == { <<"A","c","m","e">> (* Acme *), <<" ","A","c","m","e"," ">> (*  Acme  *), <<" "," ">> (*    *), None_ }

MaxDepth == 2

PerCompanyPool == {-1, 0, 1, 8}

\* lines 26-35
GraphCall(sc, md, mpc) ==
    /\ mg_pc = "start"
    /\ seed_company' = sc
    /\ max_depth' = md
    /\ max_per_company' = mpc
    /\ similar_calls' = <<>>
    /\ IF Strip(OrEmpty(sc)) = <<>>
       THEN /\ mg_pc' = "done"
            /\ G' = EmptyGraph
            /\ UNCHANGED <<frontier, seen_names, frontier_log>>
       ELSE /\ mg_pc' = "loop"
            /\ G' = AddNode(EmptyGraph, Strip(OrEmpty(sc)), None_, TRUE)
            /\ frontier' = << <<Strip(OrEmpty(sc)), 0>> >>
            /\ seen_names' = {Strip(OrEmpty(sc))}
            /\ frontier_log' = <<Strip(OrEmpty(sc))>>
    /\ UNCHANGED graph_rest

\* the head of frontier, popped in line 39
Company == Head(frontier)[1]
Depth == Head(frontier)[2]

\* lines 38-41: the head of frontier is at max_depth or deeper
GraphSkip ==
    /\ mg_pc = "loop"
    /\ frontier # <<>>
    /\ Depth >= max_depth
    /\ frontier' = Tail(frontier)
    /\ UNCHANGED <<mg_pc, seed_company, max_depth, max_per_company, G, seen_names,
                   similar_calls, frontier_log>>
    /\ UNCHANGED graph_rest

\* lines 48-64: the loop state after the peers of the company popped
AfterPeers(peers) ==
    PeersFrom([g |-> G, frontier |-> Tail(frontier), seen |-> seen_names,
               log |-> frontier_log],
              Company, Depth, peers)

\* lines 38-64 when get_similar raises: peers = [] (lines 45-46)
GraphExpandRaised ==
    /\ mg_pc = "loop"
    /\ frontier # <<>>
    /\ Depth < max_depth
    /\ similar_calls' = Append(similar_calls, [company |-> Company, depth |-> Depth])
    /\ \E st \in {AfterPeers(<<>>)} :
          /\ G' = st.g
          /\ frontier' = st.frontier
          /\ seen_names' = st.seen
          /\ frontier_log' = st.log
    /\ UNCHANGED <<mg_pc, seed_company, max_depth, max_per_company>>
    /\ UNCHANGED graph_rest

\* lines 38-64 when get_similar returns reply
GraphExpand(reply) ==
    /\ mg_pc = "loop"
    /\ frontier # <<>>
    /\ Depth < max_depth
    /\ similar_calls' = Append(similar_calls, [company |-> Company, depth |-> Depth])
    /\ \E st \in {AfterPeers(Peers(reply, max_per_company))} :
          /\ G' = st.g
          /\ frontier' = st.frontier
          /\ seen_names' = st.seen
          /\ frontier_log' = st.log
    /\ UNCHANGED <<mg_pc, seed_company, max_depth, max_per_company>>
    /\ UNCHANGED graph_rest

\* line 38 with frontier empty, line 66
GraphReturn ==
    /\ mg_pc = "loop"
    /\ frontier = <<>>
    /\ mg_pc' = "done"
    /\ UNCHANGED <<seed_company, max_depth, max_per_company, G, frontier, seen_names,
                   similar_calls, frontier_log>>
    /\ UNCHANGED graph_rest

GraphNext ==
    \/ \E sc \in SeedPool, md \in (-1)..MaxDepth, mpc \in PerCompanyPool :
          GraphCall(sc, md, mpc)
    \/ GraphSkip
    \/ GraphExpandRaised
    \/ \E reply \in Replies : GraphExpand(reply)
    \/ GraphReturn

---------------------------------------------------------------------------
(* the specifications: one per engine, the other engines at rest *)

\* no call made yet; the loop of expand_keywords is before its first keyword
Init ==
    /\ ek_in = <<>>
    /\ ek_out = <<>>
    /\ ek_seen = {}
    /\ mk_pc = "start"
    /\ mk_call = None_
    /\ mk_ret = None_
    /\ sk_pc = "start"
    /\ include = <<>>
    /\ exclude = <<>>
    /\ pages = <<>>
    /\ total_score = 0
    /\ evidence = <<>>
    /\ all_matched = {}
    /\ all_excluded = {}
    /\ sk_ret = None_
    /\ sw_pc = "start"
    /\ max_items_per_bucket = 5
    /\ news = <<>>
    /\ swot = [b \in Buckets |-> <<>>]
    /\ seen_lines = {}
    /\ fl_pc = "start"
    /\ url_or_domain = None_
    /\ include_keywords = <<>>
    /\ exclude_keywords = None_
    /\ threshold = 10
    /\ dom = None_
    /\ fl_ret = None_
    /\ st_pc = "start"
    /\ st_title = None_
    /\ st_ret = 0
    /\ fc_pc = "start"
    /\ contacts = <<>>
    /\ top_n = 10
    /\ min_score = 1
    /\ scored = <<>>
    /\ fc_ret = <<>>
    /\ tg_pc = "start"
    /\ tg_title = None_
    /\ tg_ret = "None"
    /\ cc_pc = "start"
    /\ caller_contacts = <<>>
    /\ given_contacts = <<>>
    /\ weight_tables = ModuleTables
    /\ calls = [k \in CallIds |-> NewCall(10, 1)]
    /\ mg_pc = "start"
    /\ seed_company = None_
    /\ max_depth = 1
    /\ max_per_company = 8
    /\ G = EmptyGraph
    /\ frontier = <<>>
    /\ seen_names = {}
    /\ similar_calls = <<>>
    /\ frontier_log = <<>>

SpecExpand == Init /\ [][ExpandNext]_vars

SpecMatch == Init /\ [][MatchNext]_vars

SpecScore == Init /\ [][ScoreNext]_vars

SpecSwot == Init /\ [][SwotNext]_vars

SpecFlag == Init /\ [][FlagNext]_vars

SpecTitle == Init /\ [][TitleNext]_vars

SpecFilter == Init /\ [][FilterNext]_vars

SpecTag == Init /\ [][TagNext]_vars

SpecConcurrent == Init /\ [][ConcurrentNext]_vars

SpecGraph == Init /\ [][GraphNext]_vars

\* the loop of build_market_graph runs on: no step of it waits for anything
\* but the reply of get_similar, which comes
SpecGraphFair == SpecGraph /\ WF_vars(GraphNext)

---------------------------------------------------------------------------
(* expand_keywords: claims *)

\* C8: the output of expand_keywords has no duplicate and no empty string,
\* every element is lowercased and trimmed; for every input keyword that is
\* not empty once trimmed, the output holds the trimmed, lowercased keyword
\* and each of its synonyms of the table exactly once; and nothing else is in
\* the output, so a keyword without a table entry passes through with no
\* additions.
C8_ExpandOutput ==
    /\ NoDuplicates(ek_out)
    /\ \A i \in DOMAIN ek_out :
          /\ ek_out[i] # <<>>
          /\ ek_out[i] = Lower(ek_out[i])
          /\ ek_out[i] = Strip(ek_out[i])
    /\ \A i \in DOMAIN ek_in :
          LET b == Lower(Strip(ek_in[i])) IN
          b # <<>> =>
            /\ CountOf(b, ek_out) = 1
            /\ \A j \in DOMAIN Synonyms(b) : CountOf(Synonyms(b)[j], ek_out) = 1
    /\ \A e \in Range(ek_out) :
          \E i \in DOMAIN ek_in :
            LET b == Lower(Strip(ek_in[i])) IN
            e = b \/ e \in Range(Synonyms(b))

\* C8's case: the input holds a keyword with a table entry that is neither
\* trimmed nor lowercase, a keyword without an entry, and a keyword that is
\* empty once trimmed.
C8_Witness ==
    /\ \E i \in DOMAIN ek_in :
          /\ ek_in[i] # Lower(Strip(ek_in[i]))
          /\ Synonyms(Lower(Strip(ek_in[i]))) # <<>>
    /\ \E i \in DOMAIN ek_in :
          Strip(ek_in[i]) # <<>> /\ Synonyms(Lower(Strip(ek_in[i]))) = <<>>
    /\ \E i \in DOMAIN ek_in : ek_in[i] # <<>> /\ Strip(ek_in[i]) = <<>>
    /\ Len(ek_out) > 1

\* C9: expand_keywords is idempotent: expanding its own output gives the
\* same sequence, element for element.
C9_ExpandIdempotent == expand_keywords(ek_out) = ek_out

\* C9's case: the self-referencing key 'expansion' is expanded after one of
\* its own synonyms was already put out, so its synonyms are spread around it.
C9_Witness ==
    \E i, j \in DOMAIN ek_in :
        LET bi == Lower(Strip(ek_in[i]))
            bj == Lower(Strip(ek_in[j]))
        IN /\ i < j
           /\ bi # bj
           /\ bi \in Range(Synonyms(bj))
           /\ bj \in Range(Synonyms(bj))
           /\ Len(ek_out) > Len(Synonyms(bj))


---------------------------------------------------------------------------
(* match_keywords: claims *)

\* the length of the longest contiguous run common to k and t
LongestCommonRun(k, t) ==
    LET lens == {n \in 1..Len(k) :
                    \E p \in 1..(Len(k) - n + 1) : Contains(t, SubSeq(k, p, p + n - 1))}
    IN IF lens = {} THEN 0 ELSE CHOOSE n \in lens : \A m \in lens : m <= n

\* the include keywords a call should report: those that occur verbatim in
\* the normalized text or share with it a run of at least 75% of their length
ShouldMatch(t, incl) ==
    {k \in {Lower(x) : x \in {y \in Range(incl) : Strip(y) # <<>>}} :
        \/ Contains(_normalize(TextPool[t]), k)
        \/ 4 * LongestCommonRun(k, _normalize(TextPool[t])) >= 3 * Len(k)}

\* C7: match_keywords reports an include keyword as matched exactly when,
\* ignoring case, it occurs verbatim in the normalized text or the longest
\* run common to the keyword and the whole normalized text is at least 75%
\* of the keyword's length, whatever the length of the text; the matched
\* list is sorted and has no duplicate.
C7_MatchedIffVerbatimOrFuzzy ==
    mk_pc = "done" =>
        /\ Range(mk_ret.matched) = ShouldMatch(mk_call.text, mk_call.include)
        /\ \A i, j \in DOMAIN mk_ret.matched :
              i < j => StrLess(mk_ret.matched[i], mk_ret.matched[j])

\* the same statement for the texts that difflib indexes in full, those
\* shorter than 200 characters once normalized
C7_HoldsBelowAutojunk ==
    (mk_pc = "done" /\ Len(NormText[mk_call.text]) < AutojunkMinLen) =>
        /\ Range(mk_ret.matched) = ShouldMatch(mk_call.text, mk_call.include)
        /\ \A i, j \in DOMAIN mk_ret.matched :
              i < j => StrLess(mk_ret.matched[i], mk_ret.matched[j])

---------------------------------------------------------------------------
(* score_keyword_relevance: claims *)

\* the include keywords match_keywords reports on page t
MatchedOnPage(t) == Range(match_keywords(t, include, exclude).matched)

\* the include keywords matched on some page of ps
MatchedOn(ps) == UNION {MatchedOnPage(ps[i]) : i \in DOMAIN ps}

\* the exclude keywords found on the pages of ps that match an include keyword
ExcludedOn(ps) ==
    UNION {Range(match_keywords(ps[i], include, exclude).excluded) :
              i \in {j \in DOMAIN ps : MatchedOnPage(ps[j]) # {}}}

Front(ps) == SubSeq(ps, 1, Len(ps) - 1)

Last(ps) == ps[Len(ps)]

\* the include keywords page q matches that no page of ps matches
NewlyMatched(ps, q) == MatchedOnPage(q) \ MatchedOn(ps)

\* the exclude keywords the scan of q after ps adds to excluded_keywords
NewlyExcluded(ps, q) == ExcludedOn(Append(ps, q)) \ ExcludedOn(ps)

ScoreOf(ps) == score_keyword_relevance(ps, include, exclude).score

\* the loop has just taken one more page
PageScanned == sk_pc = "loop" /\ Len(pages') = Len(pages) + 1

\* the loop state in the variables is the one of the function on the pages
\* scanned so far
ScanStateIsFunction ==
    sk_pc # "start" =>
        ScoreResult(ScanState) = score_keyword_relevance(pages, include, exclude)

\* C3: the returned score is max(0, 10 * |matched_keywords| - 5 *
\* |excluded_keywords|) of the same result; matched_keywords holds each
\* include keyword matched on some page once, however many pages match it;
\* the score is never negative.
C3_ScoreFormula ==
    sk_pc = "done" =>
        /\ sk_ret.score = Max(0, 10 * Len(sk_ret.matched_keywords)
                                 - 5 * Len(sk_ret.excluded_keywords))
        /\ NoDuplicates(sk_ret.matched_keywords)
        /\ Range(sk_ret.matched_keywords) = MatchedOn(pages)
        /\ Range(sk_ret.excluded_keywords) = ExcludedOn(pages)
        /\ NoDuplicates(sk_ret.excluded_keywords)
        /\ sk_ret.score >= 0

\* a keyword matched on two pages, and a penalty larger than the raw score
C3_Witness ==
    /\ sk_pc = "done"
    /\ \E i, j \in DOMAIN pages :
          i < j /\ MatchedOnPage(pages[i]) \cap MatchedOnPage(pages[j]) # {}
    /\ 10 * Len(sk_ret.matched_keywords) < 5 * Len(sk_ret.excluded_keywords)
    /\ sk_ret.score = 0

\* C4 as stated: a page q that matches an include keyword matched on no
\* page of P never lowers the score: score(P + [q]) >= score(P).
C4_NewMatchNeverLowers ==
    [][(PageScanned /\ NewlyMatched(pages, Last(pages')) # {})
          => ScoreOf(pages') >= ScoreOf(pages)]_vars

\* C4: a page q that matches an include keyword matched on no page of P
\* never lowers the score, provided the exclude keywords q adds to
\* excluded_keywords are at most twice as many as the include keywords
\* it newly matches (in particular when it adds none).
C4_NewMatchFewNewExcludes ==
    [][(/\ PageScanned
        /\ NewlyMatched(pages, Last(pages')) # {}
        /\ Cardinality(NewlyExcluded(pages, Last(pages')))
              <= 2 * Cardinality(NewlyMatched(pages, Last(pages'))))
          => ScoreOf(pages') >= ScoreOf(pages)]_vars

\* the last page scanned brought a new match after earlier matches, and new
\* exclude keywords, no more than twice as many
C4_Witness ==
    /\ sk_pc = "loop"
    /\ Len(pages) >= 2
    /\ MatchedOn(Front(pages)) # {}
    /\ NewlyMatched(Front(pages), Last(pages)) # {}
    /\ NewlyExcluded(Front(pages), Last(pages)) # {}
    /\ Cardinality(NewlyExcluded(Front(pages), Last(pages)))
          <= 2 * Cardinality(NewlyMatched(Front(pages), Last(pages)))

\* C5: scanning again a page p that is already in the list P never raises
\* the score, score(P + [p]) <= score(P), and adds no evidence entry.
C5_RescanAddsNothing ==
    [][(PageScanned /\ InSeq(Last(pages'), pages))
          => /\ ScoreOf(pages') <= ScoreOf(pages)
             /\ evidence' = evidence
             /\ score_keyword_relevance(pages', include, exclude).evidence
                  = score_keyword_relevance(pages, include, exclude).evidence]_vars

\* the last page scanned is a second copy of a page that matches
C5_Witness ==
    /\ sk_pc = "loop"
    /\ Len(pages) >= 2
    /\ InSeq(Last(pages), Front(pages))
    /\ MatchedOnPage(Last(pages)) # {}
    /\ evidence # <<>>

\* the positions of the pages that produce evidence: those that match an
\* include keyword matched on no earlier page
Producing(ps) ==
    {i \in DOMAIN ps : NewlyMatched(SubSeq(ps, 1, i - 1), ps[i]) # {}}

\* the n-th smallest element of a set of positions
NthOf(S, n) == CHOOSE i \in S : Cardinality({j \in S : j < i}) = n - 1

\* entry e is the one of the page at position i of ps: its url, and the
\* include keywords it matches that no earlier page matches
EntryOfPage(e, ps, i) ==
    /\ e.url = PageUrl[ps[i]]
    /\ Range(e.keywords) = NewlyMatched(SubSeq(ps, 1, i - 1), ps[i])

\* ev has one entry for each of the first 5 positions of prod, in order
FirstFiveOf(ev, ps, prod) ==
    /\ Len(ev) = Min(5, Cardinality(prod))
    /\ \A n \in DOMAIN ev : EntryOfPage(ev[n], ps, NthOf(prod, n))

\* C6: the returned evidence has at most 5 entries: one for each of the
\* first 5 pages, in processing order, that brought at least one newly seen
\* match, with the url of that page and its newly seen keywords.
C6_EvidenceFirstFive ==
    sk_pc = "done" =>
        /\ Len(sk_ret.evidence) <= 5
        /\ FirstFiveOf(sk_ret.evidence, pages, Producing(pages))

\* more than 5 pages produced evidence
C6_Witness ==
    /\ sk_pc = "done"
    /\ Cardinality(Producing(pages)) > 5
    /\ Len(sk_ret.evidence) = 5

---------------------------------------------------------------------------
(* generate_swot_from_news: claims *)

\* the four buckets one after the other
AllLines ==
    swot["Strengths"] \o swot["Weaknesses"] \o swot["Opportunities"] \o swot["Threats"]

\* the tagged items consumed so far whose formatted line is line
ItemsOfLine(line) ==
    {i \in DOMAIN news : TagTable[news[i]] # "None" /\ LineTable[news[i]] = line}

\* the first of them: the one that is not skipped as seen
FirstItemOfLine(line) ==
    news[CHOOSE i \in ItemsOfLine(line) : \A j \in ItemsOfLine(line) : i <= j]

BucketsOfLine(line) == {b \in Buckets : InSeq(line, swot[b])}

\* C1 as stated: a formatted line occurs at most once in the four buckets
\* taken together.
C1_LineOnceOverall == sw_pc # "start" => NoDuplicates(AllLines)

\* C1: a formatted line occurs at most once in each bucket and at most twice
\* in the four buckets together: in the primary and in the secondary bucket
\* of the tag of the first item that produced it, and nowhere else.
C1_LineOncePerBucketOfItsTag ==
    sw_pc # "start" =>
        \A line \in Range(AllLines) :
            /\ CountOf(line, AllLines) <= 2
            /\ \A b \in Buckets : CountOf(line, swot[b]) <= 1
            /\ BucketsOfLine(line)
                 \subseteq Range(_TAG_TO_SWOT[TagTable[FirstItemOfLine(line)]])

\* a line stands in two buckets, and a later item with the same line, tagged
\* for other buckets, was skipped
C1_Witness ==
    /\ sw_pc = "done"
    /\ \E line \in Range(AllLines) :
          /\ Cardinality(BucketsOfLine(line)) = 2
          /\ \E i, j \in ItemsOfLine(line) :
                i < j /\ _TAG_TO_SWOT[TagTable[news[i]]][1] # _TAG_TO_SWOT[TagTable[news[j]]][1]

\* C2: after any prefix of the news list each of the four buckets holds at
\* most max_items_per_bucket lines.
C2_BucketWithinCap ==
    sw_pc # "start" => \A b \in Buckets : Len(swot[b]) <= max_items_per_bucket

\* a bucket is full and a line whose primary bucket it is was turned away
C2_Witness ==
    /\ sw_pc = "loop"
    /\ max_items_per_bucket >= 1
    /\ \E b \in Buckets :
          /\ Len(swot[b]) = max_items_per_bucket
          /\ \E line \in seen_lines :
                /\ _TAG_TO_SWOT[TagTable[FirstItemOfLine(line)]][1] = b
                /\ ~InSeq(line, swot[b])

---------------------------------------------------------------------------
(* flag_business: claims *)

\* the domain of the call resolved: not None and not empty
Resolved == OrEmpty(dom) # <<>>

\* C10 as stated: whatever the domain input and the threshold, flag is true
\* exactly when the returned score is at least the threshold.
C10_FlagIffScoreAtLeastThreshold ==
    fl_pc = "done" => (fl_ret.flag <=> fl_ret.score >= threshold)

\* C10: when the domain resolves, flag is true exactly when the returned
\* score is at least the threshold; when it does not resolve, flag is false
\* and the score is 0 whatever the threshold, so that the equivalence
\* holds there only for a threshold above 0.
C10_FlagIffScoreAtLeastThresholdWhenResolved ==
    fl_pc = "done" =>
        IF Resolved
        THEN fl_ret.flag <=> fl_ret.score >= threshold
        ELSE /\ fl_ret.flag = FALSE
             /\ fl_ret.score = 0
             /\ (fl_ret.flag <=> fl_ret.score >= threshold) <=> threshold > 0

\* a resolved domain flagged with a score equal to a threshold above 0
C10_Witness ==
    /\ fl_pc = "done"
    /\ Resolved
    /\ threshold > 0
    /\ fl_ret.score = threshold
    /\ fl_ret.flag

\* C11: when the domain does not resolve (url_or_domain is None, empty, or
\* gives no host), flag_business returns flag false, score 0, empty matched
\* and excluded lists, empty evidence and no domain; it returns this from
\* the call itself, without a fetch and without scoring.
C11_UnresolvedReturnsEmptyResult ==
    /\ [](fl_pc = "done" /\ ~Resolved =>
            /\ fl_ret.flag = FALSE
            /\ fl_ret.score = 0
            /\ fl_ret.matched_keywords = <<>>
            /\ fl_ret.excluded_keywords = <<>>
            /\ fl_ret.evidence = <<>>
            /\ fl_ret.domain = None_)
    /\ [][fl_pc = "start" /\ OrEmpty(dom') = <<>> => fl_pc' = "done"]_vars
    /\ [][fl_pc = "fetch" => Resolved]_vars

\* an input that is neither None nor empty, gives no host, and comes with a
\* threshold that the score 0 reaches
C11_Witness ==
    /\ fl_pc = "done"
    /\ ~Resolved
    /\ OrEmpty(url_or_domain) # <<>>
    /\ threshold <= 0
    /\ fl_ret.flag = FALSE

---------------------------------------------------------------------------
(* _score_title: claims *)

\* the title scored, lowercased
ScoredTitle == Lower(OrEmpty(st_title))

\* the seniority and department tokens the specification lists
ListedSeniority ==
    { <<"c","e","o">> (* ceo *), <<"c","h","i","e","f">> (* chief *), <<"v","p">> (* vp *), <<"d","i","r","e","c","t","o","r">> (* director *), <<"h","e","a","d">> (* head *), <<"m","a","n","a","g","e","r">> (* manager *), <<"l","e","a","d">> (* lead *),
      <<"s","e","n","i","o","r">> (* senior *), <<"f","o","u","n","d","e","r">> (* founder *), <<"c","o","f","o","u","n","d","e","r">> (* cofounder *) }

ListedDept ==
    { <<"s","a","l","e","s">> (* sales *), <<"m","a","r","k","e","t","i","n","g">> (* marketing *), <<"p","r","o","c","u","r","e","m","e","n","t">> (* procurement *), <<"p","u","r","c","h","a","s","i","n","g">> (* purchasing *), <<"s","o","u","r","c","i","n","g">> (* sourcing *),
      <<"s","u","p","p","l","y"," ","c","h","a","i","n">> (* supply chain *), <<"c","a","t","e","g","o","r","y">> (* category *) }

\* the seniority tokens of the table that the list leaves out
UnlistedSeniority ==
    { <<"c","-","l","e","v","e","l">> (* c-level *), <<"c","m","o">> (* cmo *), <<"v","i","c","e"," ","p","r","e","s","i","d","e","n","t">> (* vice president *), <<"g","l","o","b","a","l">> (* global *), <<"c","o","-","f","o","u","n","d","e","r">> (* co-founder *) }

\* the entries of a weight table whose token is in tokens and occurs in t
PresentWeights(table, tokens, t) ==
    {table[i] : i \in {j \in DOMAIN table :
                          table[j].k \in tokens /\ Contains(t, table[j].k)}}

RECURSIVE SumWeights(_)
SumWeights(S) ==
    IF S = {} THEN 0
    ELSE (CHOOSE e \in S : TRUE).w + SumWeights(S \ {CHOOSE e \in S : TRUE})

\* 15 per matching target pattern, the weight of each token of the two sets
\* present in t, less 5 when a junior term is present
TokenScore(t, seniority, dept) ==
    15 * Cardinality(TargetHits(t))
    + SumWeights(PresentWeights(_SENIORITY_WEIGHTS, seniority, t))
    + SumWeights(PresentWeights(_DEPT_WEIGHTS, dept, t))
    - (IF \E x \in JuniorTerms : Contains(t, x) THEN 5 ELSE 0)

\* the scores of the two titles the specification compares
ChiefExecutiveScore == _score_title(<<"C","h","i","e","f"," ","E","x","e","c","u","t","i","v","e"," ","O","f","f","i","c","e","r">> (* Chief Executive Officer *))

MarketingCoordinatorScore == _score_title(<<"M","a","r","k","e","t","i","n","g"," ","C","o","o","r","d","i","n","a","t","o","r">> (* Marketing Coordinator *))

\* C14 as stated: the score is 15 per matching target pattern, plus the
\* weight of each listed seniority token (ceo, chief, vp, director, head,
\* manager, lead, senior, founder, cofounder) and each department token
\* present as a substring, minus 5 for a junior term, and no other token
\* contributes; the empty title scores 0; 'Chief Executive Officer' scores
\* higher than 'Marketing Coordinator'.
C14_ScoreFromListedTokens ==
    st_pc = "done" =>
        /\ st_ret = TokenScore(ScoredTitle, ListedSeniority, ListedDept)
        /\ ScoredTitle = <<>> => st_ret = 0
        /\ ChiefExecutiveScore > MarketingCoordinatorScore

\* C14: the same with the seniority tokens c-level, cmo, vice president,
\* global and co-founder added to the list: these five contribute their
\* weight too, and no token beyond them does.
C14_ScoreFromTableTokens ==
    st_pc = "done" =>
        /\ st_ret = TokenScore(ScoredTitle, ListedSeniority \cup UnlistedSeniority,
                               ListedDept)
        /\ ScoredTitle = <<>> => st_ret = 0
        /\ ChiefExecutiveScore > MarketingCoordinatorScore

\* a title that matches two target patterns and holds a token the list
\* leaves out
C14_Witness ==
    /\ st_pc = "done"
    /\ Cardinality(TargetHits(ScoredTitle)) = 2
    /\ \E k \in UnlistedSeniority : Contains(ScoredTitle, k)
    /\ st_ret > 30

---------------------------------------------------------------------------
(* filter_contacts_by_title: what the list returned holds *)

FilterDone == fc_pc = "done"

\* the email of the contact at place p of the list, lowercased
LowerEmailTable == [c \in ContactIds |-> Lower(OrEmpty(ContactPool[c].email))]

\* C12: the list returned never holds two entries whose emails are equal
\* after lowercasing, and it is no longer than min(top_n, number of
\* contacts given)
C12_NoTwoEqualEmails ==
    FilterDone =>
        /\ \A i, j \in DOMAIN fc_ret :
               i < j => LowerEmailTable[fc_ret[i].c] # LowerEmailTable[fc_ret[j].c]
        /\ Len(fc_ret) <= Min(top_n, Len(contacts))

\* two contacts whose emails differ in case only both reach min_score, one
\* of them is returned, and the list given is longer than top_n
C12_Witness ==
    /\ FilterDone
    /\ \E p, q \in DOMAIN contacts :
           /\ p < q
           /\ ContactPool[contacts[p]].email # ContactPool[contacts[q]].email
           /\ LowerEmailTable[contacts[p]] = LowerEmailTable[contacts[q]]
           /\ ContactScoreTable[contacts[q]] >= min_score
           /\ \E i \in DOMAIN fc_ret : fc_ret[i].pos = p
    /\ Len(fc_ret) = top_n
    /\ top_n < Len(contacts)

\* the text of email before the first at sign, None when it has none
LocalPart(email) ==
    IF ~InSeq("@", email) THEN None_
    ELSE SubSeq(email, 1, (CHOOSE i \in DOMAIN email :
                               /\ email[i] = "@"
                               /\ \A j \in 1..(i - 1) : email[j] # "@") - 1)

Aliases ==
    { <<"c","e","o">> (* ceo *), <<"f","o","u","n","d","e","r">> (* founder *), <<"s","a","l","e","s">> (* sales *), <<"m","a","r","k","e","t","i","n","g">> (* marketing *), <<"p","r","o","c","u","r","e","m","e","n","t">> (* procurement *),
      <<"p","u","r","c","h","a","s","i","n","g">> (* purchasing *), <<"s","o","u","r","c","i","n","g">> (* sourcing *) }

\* the score the contact c is to get: that of its trimmed title, and 2 more
\* when the local part of its email is an alias, whatever its case
ExpectedScore(c) ==
    _score_title(Strip(OrEmpty(c.title)))
    + (IF LocalPart(Lower(OrEmpty(c.email))) \in Aliases THEN 2 ELSE 0)

ExpectedScoreTable == [c \in ContactIds |-> ExpectedScore(ContactPool[c])]

\* C13: the score of every contact returned is that of its trimmed title,
\* plus 2 exactly when the local part of its email is one of the aliases,
\* whatever score the contact given carried
C13_ScoreRecomputed ==
    FilterDone =>
        \A i \in DOMAIN fc_ret : fc_ret[i].score = ExpectedScoreTable[fc_ret[i].c]

\* the list returned holds a contact that carried another score, a contact
\* with an alias mailbox and one whose mailbox only starts like an alias
C13_Witness ==
    /\ FilterDone
    /\ \E i \in DOMAIN fc_ret :
           /\ ContactPool[fc_ret[i].c].score # {}
           /\ fc_ret[i].score \notin ContactPool[fc_ret[i].c].score
    /\ \E i \in DOMAIN fc_ret :
           /\ LocalPart(LowerEmailTable[fc_ret[i].c]) \in Aliases
           /\ fc_ret[i].score = _score_title(Strip(OrEmpty(ContactPool[fc_ret[i].c].title))) + 2
    /\ \E i \in DOMAIN fc_ret :
           /\ LocalPart(LowerEmailTable[fc_ret[i].c]) \notin Aliases
           /\ \E a \in Aliases : StartsWith(LowerEmailTable[fc_ret[i].c], a)

\* the contact at place p reaches min_score
Qualifies(p) == ContactScoreTable[contacts[p]] >= min_score

\* the contact at place p qualifies, has an email under the key K, and no
\* qualifying contact before it has the same one
DistinctEmail(K, p) ==
    /\ Qualifies(p)
    /\ K[contacts[p]] # <<>>
    /\ \A q \in 1..(p - 1) : Qualifies(q) => K[contacts[q]] # K[contacts[p]]

DistinctPlaces(K) == {p \in DOMAIN contacts : DistinctEmail(K, p)}

ReturnedPlaces == {fc_ret[i].pos : i \in DOMAIN fc_ret}

\* scores never increase along the list returned, and of two entries with
\* the same score the one given first comes first
SortedStable ==
    \A i, j \in DOMAIN fc_ret :
        i < j => \/ fc_ret[i].score > fc_ret[j].score
                 \/ /\ fc_ret[i].score = fc_ret[j].score
                    /\ fc_ret[i].pos < fc_ret[j].pos

AboveMinScore == \A i \in DOMAIN fc_ret : fc_ret[i].score >= min_score

\* the list returned is the first top_n of the qualifying contacts with
\* distinct emails under the key K: no contact left out comes before one
\* returned
FirstTopN(K) ==
    /\ ReturnedPlaces \subseteq DistinctPlaces(K)
    /\ Len(fc_ret) = Min(top_n, Cardinality(DistinctPlaces(K)))
    /\ \A p \in DistinctPlaces(K) \ ReturnedPlaces : \A i \in DOMAIN fc_ret :
           \/ ContactScoreTable[contacts[p]] < fc_ret[i].score
           \/ /\ ContactScoreTable[contacts[p]] = fc_ret[i].score
              /\ fc_ret[i].pos < p

\* C20 as stated, two emails being distinct when they differ after
\* lowercasing: the list returned is sorted by score, highest first, equal
\* scores in the order given, every score is at least min_score, and it is
\* the first top_n of that order, so that no qualifying contact with a
\* distinct email that is left out has a higher score than one returned
C20_TopNOfDistinctLowercaseEmails ==
    FilterDone => SortedStable /\ AboveMinScore /\ FirstTopN(LowerEmailTable)

\* C20, amended: the same with two emails distinct when they differ after
\* lowercasing and trimming
C20_TopNOfDistinctTrimmedEmails ==
    FilterDone => SortedStable /\ AboveMinScore /\ FirstTopN(EmailKeyTable)

\* two contacts with the same score are returned and a qualifying contact
\* with an email of its own is cut by top_n
C20_Witness ==
    /\ FilterDone
    /\ \E i, j \in DOMAIN fc_ret : i < j /\ fc_ret[i].score = fc_ret[j].score
    /\ Len(fc_ret) = top_n
    /\ DistinctPlaces(EmailKeyTable) \ ReturnedPlaces # {}

---------------------------------------------------------------------------
(* _tag_for_title: the first pattern of the list wins *)

\* the tags of _PATTERNS in the order of the list
TagOrder ==
    << "funding", "mna", "partner", "launch", "expansion", "strong_results",
       "layoffs", "weak_results", "lawsuit", "regulatory", "recall", "security",
       "supply" >>

\* the patterns that match the lowercased headline
Matching(title) ==
    {i \in DOMAIN _PATTERNS : Search(_PATTERNS[i], Lower(OrEmpty(title)))}

\* the tag returned is that of the first of the patterns numbered in hits
TagIsFirstOf(hits) ==
    /\ hits = {} => tg_ret = "None"
    /\ \A i \in hits : (\A j \in hits : i <= j) => tg_ret = TagOrder[i]

\* C15: _tag_for_title returns the tag of the first pattern, in the order
\* funding, mna, partner, launch, expansion, strong_results, layoffs,
\* weak_results, lawsuit, regulatory, recall, security, supply, that matches
\* the lowercased title, and None when none matches; the two headlines of
\* the spec get funding and mna
C15_FirstPatternWins ==
    /\ [i \in DOMAIN _PATTERNS |-> _PATTERNS[i].tag] = TagOrder
    /\ tg_pc = "done" =>
        /\ TagIsFirstOf(Matching(tg_title))
        /\ tg_title = <<"A","c","m","e"," ","r","a","i","s","e","s"," ","$","1","0","M"," ","S","e","r","i","e","s"," ","B">> (* Acme raises $10M Series B *) => tg_ret = "funding"
        /\ tg_title = <<"A","c","m","e"," ","t","o"," ","a","c","q","u","i","r","e"," ","B","e","t","a"," ","C","o","r","p">> (* Acme to acquire Beta Corp *) => tg_ret = "mna"

\* a headline that the patterns of funding and mna both match
C15_Witness ==
    /\ tg_pc = "done"
    /\ {1, 2} \subseteq Matching(tg_title)
    /\ tg_ret = "funding"

---------------------------------------------------------------------------
(* score_keyword_relevance: the exclude keywords of pages with no match *)

\* the exclude keywords found on any page of ps
ExcludedOnAnyPage(ps) ==
    UNION {Range(match_keywords(ps[i], include, exclude).excluded) : i \in DOMAIN ps}

\* C17: excluded_keywords is the union, over every page of the list, pages
\* that match no include keyword included, of the exclude keywords found on
\* the page, and the penalty is 5 for each of them
C17_ExcludedFromEveryPage ==
    sk_pc = "done" =>
        /\ Range(sk_ret.excluded_keywords) = ExcludedOnAnyPage(pages)
        /\ sk_ret.score = Max(0, 10 * Len(sk_ret.matched_keywords)
                                 - 5 * Cardinality(ExcludedOnAnyPage(pages)))

---------------------------------------------------------------------------
(* match_keywords: the exclude list against the include list *)

\* k is reported as matched when it is the one include keyword of a call on
\* the same text
MatchedAsInclude(t, k) == k \in Range(match_keywords(t, <<k>>, <<>>).matched)

\* C18: for every text and every keyword k, k is reported in excluded when
\* given as an exclude keyword exactly when it is reported in matched when
\* given as an include keyword
C18_ExcludedIffMatchedAsInclude ==
    mk_pc = "done" =>
        \A k \in Range(LowerNonBlank(mk_call.exclude)) :
            k \in Range(mk_ret.excluded) <=> MatchedAsInclude(mk_call.text, k)

\* the part of C18 that holds: an exclude keyword is reported exactly when
\* it occurs verbatim in the normalized text
C18_ExcludedIffVerbatim ==
    mk_pc = "done" =>
        Range(mk_ret.excluded) =
            {k \in Range(LowerNonBlank(mk_call.exclude)) :
                Contains(_normalize(TextPool[mk_call.text]), k)}

---------------------------------------------------------------------------
(* score_keyword_relevance: the snippet of an evidence entry *)

\* the window of text around the n characters that follow position i (from
\* 0): 80 characters on each side, and the marker at each end that is cut
Window(text, i, n) ==
    (IF i - 80 > 0 THEN <<".",".",".">> (* ... *) ELSE <<>>)
    \o SubSeq(text, Max(i - 80, 0) + 1, Min(i + n + 80, Len(text)))
    \o (IF i + n + 80 < Len(text) THEN <<".",".",".">> (* ... *) ELSE <<>>)

\* the window around the first occurrence of keyword k in text t, the case
\* of the text ignored as in the matching; None when k does not occur
WindowTable ==
    [t \in TextIds |-> [k \in KeywordUniverse |->
        IF Find(Lower(TextPool[t]), k) = -1 THEN None_
        ELSE Window(TextPool[t], Find(Lower(TextPool[t]), k), Len(k))]]

\* the same with the case of the text kept, as text.find does
VerbatimWindowTable ==
    [t \in TextIds |-> [k \in KeywordUniverse |->
        IF Find(TextPool[t], k) = -1 THEN None_
        ELSE Window(TextPool[t], Find(TextPool[t], k), Len(k))]]

\* the page of the pool with this url
PageOfUrl(url) == CHOOSE t \in TextIds : PageUrl[t] = url

\* entry e has the window W gives for its page and its first keyword, when
\* W gives one
SnippetIs(e, W) ==
    W[PageOfUrl(e.url)][e.keywords[1]] # None_
        => e.snippet = W[PageOfUrl(e.url)][e.keywords[1]]

\* C19: every evidence snippet is the window of the page text from 80
\* characters before the first occurrence of the first new match to 80
\* characters after its end, with the marker ... at the start (at the end)
\* exactly when the text is cut there, also when the page text is not
\* lowercase
C19_SnippetIsWindow ==
    sk_pc = "done" =>
        \A n \in DOMAIN sk_ret.evidence : SnippetIs(sk_ret.evidence[n], WindowTable)

\* the part of C19 that holds: the snippet is that window when the lowercased
\* keyword occurs in the page text as it is, case kept
C19_SnippetIsWindowWhenVerbatim ==
    sk_pc = "done" =>
        \A n \in DOMAIN sk_ret.evidence :
            SnippetIs(sk_ret.evidence[n], VerbatimWindowTable)

---------------------------------------------------------------------------
(* the scorers share nothing they write *)

\* what filter_contacts_by_title returns for the list, top_n n and min_score
\* m when it runs alone
FilterAlone(list, n, m) ==
    Take(SortByScore(_dedupe_by_email(
             SelectSeq([i \in DOMAIN list |->
                           [pos |-> i, c |-> list[i].c,
                            score |-> ContactScoreTable[list[i].c]]],
                       LAMBDA e : e.score >= m))), n)

---------------------------------------------------------------------------
(* filter_contacts_by_title: which of several contacts with one email stays *)

\* the places of the list whose email is that of place p, case and
\* surrounding blanks ignored
SameEmail(p) ==
    {q \in DOMAIN contacts : EmailKeyTable[contacts[q]] = EmailKeyTable[contacts[p]]}

\* the first place of the list with the email of p that reaches min_score
FirstQualifying(p) ==
    CHOOSE q \in SameEmail(p) :
        /\ Qualifies(q)
        /\ \A r \in SameEmail(p) : Qualifies(r) => q <= r

\* C21: of the contacts with one email, case and surrounding blanks ignored,
\* the one returned is the earliest that reaches min_score, also when a later
\* one scores higher; a contact below min_score never stands in the way of a
\* later one.  Whenever top_n cuts nothing, that earliest one is returned.
C21_FirstQualifyingWins ==
    FilterDone =>
        /\ \A n \in DOMAIN fc_ret : fc_ret[n].pos = FirstQualifying(fc_ret[n].pos)
        /\ Len(fc_ret) < top_n =>
               \A p \in DOMAIN contacts :
                   (Qualifies(p) /\ EmailKeyTable[contacts[p]] # <<>>)
                       => FirstQualifying(p) \in ReturnedPlaces

\* three contacts with one email: the first is below min_score, the second
\* is returned, the third scores higher than the second and is left out
C21_Witness ==
    /\ FilterDone
    /\ Len(contacts) = 3
    /\ SameEmail(1) = {1, 2, 3}
    /\ ~Qualifies(1)
    /\ ReturnedPlaces = {2}
    /\ ContactScoreTable[contacts[3]] > ContactScoreTable[contacts[2]]

---------------------------------------------------------------------------
(* generate_swot_from_news: the tag of an item *)

\* the tag the kind of an item stands for, "None" when it stands for none
KindGives(kind) ==
    CASE Contains(kind, <<"f","u","n","d">> (* fund *)) -> "funding"
      [] ~Contains(kind, <<"f","u","n","d">> (* fund *))
            /\ (Contains(kind, <<"m","&","a">> (* m&a *)) \/ Contains(kind, <<"a","c","q","u","i","s","i","t","i","o","n">> (* acquisition *))) -> "mna"
      [] ~Contains(kind, <<"f","u","n","d">> (* fund *)) /\ ~Contains(kind, <<"m","&","a">> (* m&a *))
            /\ ~Contains(kind, <<"a","c","q","u","i","s","i","t","i","o","n">> (* acquisition *)) /\ Contains(kind, <<"e","x","p","a","n","s","i","o","n">> (* expansion *))
            -> "expansion"
      [] OTHER -> "None"

\* the tag of item n by the rule of the specification: that of the kind, and
\* that of the title only when the kind gives none
ExpectedTag(n) ==
    IF KindGives(Lower(OrEmpty(NewsPool[n].kind))) # "None"
    THEN KindGives(Lower(OrEmpty(NewsPool[n].kind)))
    ELSE _tag_for_title(Title(NewsPool[n]))

ExpectedTagTable == [n \in NewsIds |-> ExpectedTag(n)]

TitleTagTable == [n \in NewsIds |-> _tag_for_title(Title(NewsPool[n]))]

\* the loop has just taken one more item
ItemTaken == sw_pc = "loop" /\ Len(news') = Len(news) + 1

\* the buckets that got a line in this step
Grown == {b \in Buckets : swot'[b] # swot[b]}

\* the step treated item n as an item of this tag
TreatedAs(n, tag) ==
    IF tag = "None" THEN swot' = swot /\ seen_lines' = seen_lines
    ELSE /\ LineTable[n] \in seen_lines'
         /\ Grown \subseteq Range(_TAG_TO_SWOT[tag])
         /\ (LineTable[n] \notin seen_lines /\ max_items_per_bucket > 0
                /\ swot = [b \in Buckets |-> <<>>])
               => Grown = Range(_TAG_TO_SWOT[tag]) \ {"None"}

\* C22: an item whose kind contains fund is treated as funding, else one
\* with m&a or acquisition as mna, else one with expansion as expansion,
\* whatever its title matches; the first pattern that matches the title
\* decides only when the kind gives no tag
C22_KindBeforeTitle ==
    [][ItemTaken => TreatedAs(news'[Len(news')], ExpectedTagTable[news'[Len(news')]])]_vars

\* the first item of the list is classified as an acquisition and its title
\* matches the pattern of lawsuit: its line went to the buckets of mna
C22_Witness ==
    /\ sw_pc = "loop"
    /\ Len(news) = 1
    /\ max_items_per_bucket > 0
    /\ ExpectedTagTable[news[1]] = "mna"
    /\ TitleTagTable[news[1]] = "lawsuit"
    /\ swot["Strengths"] = <<LineTable[news[1]]>>
    /\ swot["Opportunities"] = <<LineTable[news[1]]>>
    /\ swot["Threats"] = <<>>

---------------------------------------------------------------------------
(* generate_swot_from_news: the two buckets of a line *)

\* the item just taken, its line and the pair of buckets of its tag
TakenItem == news'[Len(news')]

TakenPair == _TAG_TO_SWOT[TagTable[TakenItem]]

\* the item just taken is tagged and its line was not seen before
NewLineTaken ==
    ItemTaken /\ TagTable[TakenItem] # "None" /\ LineTable[TakenItem] \notin seen_lines

\* bucket b took the line in this step exactly when it was under the cap,
\* and is as it was otherwise
TookIffUnderCap(b) ==
    swot'[b] = IF Len(swot[b]) < max_items_per_bucket
               THEN Append(swot[b], LineTable[TakenItem])
               ELSE swot[b]

\* C23: a tagged line not seen before is appended to the primary bucket of
\* its tag iff that bucket is under the cap, and to the secondary bucket iff
\* there is one, it is not the primary and it is under its own cap, whether
\* or not the primary took the line; no other bucket changes
C23_SecondaryIndependentOfPrimary ==
    [][NewLineTaken =>
          \A b \in Buckets :
              IF b = TakenPair[1] \/ b = TakenPair[2]
              THEN TookIffUnderCap(b)
              ELSE swot'[b] = swot[b]]_vars

\* a line stands in the secondary bucket of its tag and not in the primary,
\* which was full
C23_Witness ==
    /\ sw_pc = "loop"
    /\ \E line \in seen_lines :
          /\ _TAG_TO_SWOT[TagTable[FirstItemOfLine(line)]][2] # "None"
          /\ InSeq(line, swot[_TAG_TO_SWOT[TagTable[FirstItemOfLine(line)]][2]])
          /\ ~InSeq(line, swot[_TAG_TO_SWOT[TagTable[FirstItemOfLine(line)]][1]])
          /\ Len(swot[_TAG_TO_SWOT[TagTable[FirstItemOfLine(line)]][1]])
                = max_items_per_bucket

---------------------------------------------------------------------------
(* generate_swot_from_news: where the lines of a bucket come from *)

\* the places of the list whose item is tagged for bucket b and has this line
SourcesOf(line, b) ==
    {i \in DOMAIN news :
        /\ TagTable[news[i]] # "None"
        /\ LineTable[news[i]] = line
        /\ b \in Range(_TAG_TO_SWOT[TagTable[news[i]]])}

\* the place of the first tagged item with this line
FirstPlaceOf(line) == CHOOSE i \in ItemsOfLine(line) : \A j \in ItemsOfLine(line) : i <= j

\* C24: the result has exactly the keys Strengths, Weaknesses, Opportunities
\* and Threats; every line of a bucket comes from an item of the list whose
\* tag has that bucket as primary or secondary, so that an item without a
\* tag brings no line; the lines of a bucket stand in the order of their
\* items in the list
C24_FourBucketsInInputOrder ==
    sw_pc # "start" =>
        /\ DOMAIN swot = {"Strengths", "Weaknesses", "Opportunities", "Threats"}
        /\ \A b \in Buckets : \A k \in DOMAIN swot[b] : SourcesOf(swot[b][k], b) # {}
        /\ \A b \in Buckets : \A k, m \in DOMAIN swot[b] :
               k < m => FirstPlaceOf(swot[b][k]) < FirstPlaceOf(swot[b][m])

\* the result holds a bucket of two lines; the list has an item without a
\* tag between the items of the two
C24_Witness ==
    /\ sw_pc = "done"
    /\ \E b \in Buckets :
          /\ Len(swot[b]) = 2
          /\ \E i \in DOMAIN news :
                /\ TagTable[news[i]] = "None"
                /\ FirstPlaceOf(swot[b][1]) < i
                /\ i < FirstPlaceOf(swot[b][2])

---------------------------------------------------------------------------
(* expand_keywords: the order of the output *)

\* the keyword the loop took in this step, and what the step put out
TakenKeyword == ek_in'[Len(ek_in')]
PutOut == SubSeq(ek_out', Len(ek_out) + 1, Len(ek_out'))

\* the elements of alts that are not in the sequence out, in the order of alts
NotYetIn(out, alts) ==
    LET Unseen(a) == a \notin Range(out) IN SelectSeq(alts, Unseen)

\* the synonyms of base not yet put out, then base itself unless it is put
\* out already or stands among its own synonyms
SynonymsThenKeywordOnce(out, base) ==
    NotYetIn(out, Synonyms(base)) \o NotYetIn(out \o Synonyms(base), <<base>>)

\* C25 as stated: for a single keyword k with an entry in the synonym table,
\* expand_keywords([k]) is the synonyms of k in table order followed by k
\* itself as the last element
C25_SynonymsThenKeywordLast ==
    (Len(ek_in) = 1 /\ ek_in[1] \in Range(SynonymKeys)) =>
        ek_out = Synonyms(ek_in[1]) \o <<ek_in[1]>>

\* C25: for a single keyword k whose trimmed, lowercased form has an entry
\* in the synonym table, expand_keywords([k]) is the synonyms of that form in
\* table order, followed by the form itself unless it stands among its own
\* synonyms; for a list, every keyword puts out its not-yet-seen synonyms in
\* table order and after them its trimmed, lowercased form when that is not
\* yet seen, behind everything put out before
C25_SynonymsThenKeywordOnce ==
    /\ [](Len(ek_in) = 1 /\ Synonyms(KeywordBase(ek_in[1])) # <<>> =>
            ek_out = SynonymsThenKeywordOnce(<<>>, KeywordBase(ek_in[1])))
    /\ [][/\ Len(ek_in') = Len(ek_in) + 1
          /\ SubSeq(ek_out', 1, Len(ek_out)) = ek_out
          /\ PutOut = IF KeywordBase(TakenKeyword) = <<>> THEN <<>>
                      ELSE SynonymsThenKeywordOnce(ek_out, KeywordBase(TakenKeyword))]_vars

\* the single keyword 'expansion' gave the eight synonyms of its entry and
\* nothing after them: it stands second, among its own synonyms
C25_Witness ==
    /\ ek_in = << <<"e","x","p","a","n","s","i","o","n">> (* expansion *) >>
    /\ ek_out = Synonyms(<<"e","x","p","a","n","s","i","o","n">> (* expansion *))
    /\ Len(ek_out) = 8
    /\ ek_out[2] = <<"e","x","p","a","n","s","i","o","n">> (* expansion *)

---------------------------------------------------------------------------
(* _score_title: the junior penalty *)

TokensOf(table) == {table[i].k : i \in DOMAIN table}

\* what hits matching patterns and the tokens of the two weight tables add
\* for t
Gain(hits, t) ==
    15 * Cardinality(hits)
    + SumWeights(PresentWeights(_SENIORITY_WEIGHTS, TokensOf(_SENIORITY_WEIGHTS), t))
    + SumWeights(PresentWeights(_DEPT_WEIGHTS, TokensOf(_DEPT_WEIGHTS), t))

JuniorIn(t) == {x \in JuniorTerms : Contains(t, x)}

\* a token of one of the two weight tables occurs in t
WeightedTokenIn(t) ==
    \E k \in TokensOf(_SENIORITY_WEIGHTS) \cup TokensOf(_DEPT_WEIGHTS) : Contains(t, k)

\* the patterns that match t, what patterns and tokens add, and the junior
\* terms in t
FactsOf(hits, t) == [hits |-> hits, gain |-> Gain(hits, t), junior |-> JuniorIn(t)]

TitleFacts == FactsOf(TargetHits(ScoredTitle), ScoredTitle)

\* the score is what the patterns and tokens add, less exactly 5 when one or
\* several junior terms occur, and it is never under -5
FlatPenalty(f) ==
    /\ st_ret = f.gain - (IF f.junior = {} THEN 0 ELSE 5)
    /\ st_ret >= -5

\* C26 as stated: the penalty is flat, the score is >= -5, and a negative
\* score occurs only when no target pattern and no weighted token matched
C26_NegativeOnlyWithoutAnyMatch ==
    st_pc = "done" =>
        \E f \in {TitleFacts} :
            /\ FlatPenalty(f)
            /\ st_ret < 0 => (f.hits = {} /\ ~WeightedTokenIn(ScoredTitle))

\* C26: the penalty is flat, the score is >= -5, and the score is negative
\* exactly when a junior term occurs, no target pattern matched and the
\* weights of the matched tokens add up to less than 5
C26_NegativeWhenGainUnderFive ==
    st_pc = "done" =>
        \E f \in {TitleFacts} :
            /\ FlatPenalty(f)
            /\ st_ret < 0 <=> (f.junior # {} /\ f.hits = {} /\ f.gain < 5)

\* a title with several junior terms and a weighted token ('manager') that
\* scores under zero
C26_Witness ==
    /\ st_pc = "done"
    /\ Cardinality(JuniorIn(ScoredTitle)) > 1
    /\ WeightedTokenIn(ScoredTitle)
    /\ st_ret = -2

---------------------------------------------------------------------------
(* score_keyword_relevance: the order of the pages *)

\* ps without its i-th element
Without(ps, i) == SubSeq(ps, 1, i - 1) \o SubSeq(ps, i + 1, Len(ps))

\* every ordering of the elements of ps
RECURSIVE PermsOf(_)
PermsOf(ps) ==
    IF ps = <<>> THEN {<<>>}
    ELSE UNION {{<<ps[i]>> \o q : q \in PermsOf(Without(ps, i))} : i \in DOMAIN ps}

\* ps with the elements at i and j exchanged
Swapped(ps, i, j) == [ps EXCEPT ![i] = ps[j], ![j] = ps[i]]

Reversed(ps) == [i \in DOMAIN ps |-> ps[Len(ps) + 1 - i]]

\* the longest list of which every ordering is tried
MaxPermuted == 3

\* the orderings of ps that are tried: all of them for a list of up to
\* MaxPermuted pages; for a longer list the exchanges of two neighbours and
\* the list reversed
Rearranged(ps) ==
    IF Len(ps) <= MaxPermuted THEN PermsOf(ps)
    ELSE {Swapped(ps, i, i + 1) : i \in 1..(Len(ps) - 1)} \cup {Reversed(ps)}

ResultOn(ps) == score_keyword_relevance(ps, include, exclude)

\* what match_keywords gives for each page with the keywords of the call
ResultsByPage == [t \in TextIds |-> match_keywords(t, include, exclude)]

\* the loop of lines 114-126 over ps, with res[t] the result of
\* match_keywords on page t
RECURSIVE ScanOrder(_, _, _)
ScanOrder(st, ps, res) ==
    IF ps = <<>> THEN st
    ELSE ScanOrder(ScanWith(st, Head(ps), res[Head(ps)]), Tail(ps), res)

\* the dict returned for the pages in the order ps
ResultOfOrder(ps, res) == ScoreResult(ScanOrder(ScanStart, ps, res))

\* the order q of the pages gives the score and the two keyword lists of r
SameButEvidence(q, res, r) ==
    \E rq \in {ResultOfOrder(q, res)} :
        /\ rq.score = r.score
        /\ rq.matched_keywords = r.matched_keywords
        /\ rq.excluded_keywords = r.excluded_keywords

\* C27: the score, matched_keywords and excluded_keywords returned by
\* score_keyword_relevance are the same for every ordering of the page list
C27_PageOrderIrrelevant ==
    sk_pc = "done" =>
        \E res \in {ResultsByPage} :
            \A q \in Rearranged(pages) : SameButEvidence(q, res, sk_ret)

\* a list of pages with a positive score and an excluded keyword, of which
\* another ordering gives another evidence list
C27_Witness ==
    /\ sk_pc = "done"
    /\ Len(pages) >= 2
    /\ sk_ret.score > 0
    /\ sk_ret.excluded_keywords # <<>>
    /\ \E q \in Rearranged(pages) : ResultOn(q).evidence # sk_ret.evidence

---------------------------------------------------------------------------
(* score_keyword_relevance: the keywords of the evidence entries *)

\* the keywords of the evidence entries of result r, together
Backed(r) == UNION {Range(r.evidence[n].keywords) : n \in DOMAIN r.evidence}

\* the keyword lists of the evidence entries of r are non-empty, pairwise
\* disjoint and within matched_keywords
KeywordListsApart(r) ==
    /\ \A n \in DOMAIN r.evidence :
          /\ r.evidence[n].keywords # <<>>
          /\ Range(r.evidence[n].keywords) \subseteq Range(r.matched_keywords)
    /\ \A n, m \in DOMAIN r.evidence :
          n # m => Range(r.evidence[n].keywords) \cap Range(r.evidence[m].keywords) = {}

\* C28: in every result of score_keyword_relevance the keyword lists of the
\* evidence entries are non-empty, pairwise disjoint and subsets of
\* matched_keywords; when at most five pages brought new matches they
\* partition matched_keywords; when more than five did, matched_keywords,
\* which the score counts, holds keywords that no retained entry has
C28_EvidencePartitionsMatched ==
    sk_pc = "done" =>
        /\ KeywordListsApart(sk_ret)
        /\ Cardinality(Producing(pages)) <= 5 =>
              Backed(sk_ret) = Range(sk_ret.matched_keywords)
        /\ Cardinality(Producing(pages)) > 5 =>
              /\ Range(sk_ret.matched_keywords) \ Backed(sk_ret) # {}
              /\ sk_ret.score = Max(0, 10 * Len(sk_ret.matched_keywords)
                                       - 5 * Len(sk_ret.excluded_keywords))

\* two pages that match a common keyword both brought new matches, and the
\* entries of at most five pages cover matched_keywords
C28_Witness ==
    /\ sk_pc = "done"
    /\ Len(sk_ret.evidence) >= 2
    /\ Cardinality(Producing(pages)) <= 5
    /\ \E i, j \in Producing(pages) :
          i < j /\ MatchedOnPage(pages[i]) \cap MatchedOnPage(pages[j]) # {}
    /\ Backed(sk_ret) = Range(sk_ret.matched_keywords)

---------------------------------------------------------------------------
(* generate_swot_from_news: no line twice in a bucket *)

\* the line of the item taken in this step is the line of a tagged item
\* taken before
TakenLineSeenBefore == ItemTaken /\ ItemsOfLine(LineTable[TakenItem]) # {}

\* C29: within each bucket no formatted line stands twice, and an item whose
\* line was already seen is skipped before any bucket is appended to: no
\* bucket changes
C29_NoLineTwiceInABucket ==
    /\ [](sw_pc # "start" => \A b \in Buckets : NoDuplicates(swot[b]))
    /\ [][TakenLineSeenBefore => swot' = swot]_vars

\* the list holds an item twice and the same title under another kind, all
\* tagged, and their line stands once in a bucket that is not full
C29_Witness ==
    /\ sw_pc = "done"
    /\ \E i, j, k \in DOMAIN news :
          /\ i < j /\ j < k
          /\ news[i] = news[j]
          /\ news[k] # news[i]
          /\ TagTable[news[i]] # "None"
          /\ TagTable[news[k]] # "None"
          /\ TagTable[news[k]] # TagTable[news[i]]
          /\ LineTable[news[k]] = LineTable[news[i]]
          /\ \E b \in Buckets :
                /\ CountOf(LineTable[news[i]], swot[b]) = 1
                /\ Len(swot[b]) < max_items_per_bucket

---------------------------------------------------------------------------
(* build_market_graph: termination and reach *)

\* seed = (seed_company or "").strip()
Seed == Strip(OrEmpty(seed_company))

\* the nodes of g one edge away from a node of W, and W
OneEdgeOn(g, W) == W \cup {n \in DOMAIN g.nodes : \E m \in W : {m, n} \in g.edges}

\* the nodes of g within k edges of node s
RECURSIVE WithinEdges(_, _, _)
WithinEdges(g, s, k) ==
    IF k < 0 THEN {}
    ELSE IF k = 0 THEN {s} \cap DOMAIN g.nodes
    ELSE OneEdgeOn(g, WithinEdges(g, s, k - 1))

\* every call terminates
Terminates == (mg_pc = "loop") ~> (mg_pc = "done")

\* each name enters frontier at most once
EntersOnce == NoDuplicates(frontier_log)

\* get_similar is called at most once per company, and only for a company
\* at a depth under max_depth
CalledOnceUnderMaxDepth ==
    /\ \A i, j \in DOMAIN similar_calls :
          similar_calls[i].company = similar_calls[j].company => i = j
    /\ \A i \in DOMAIN similar_calls : similar_calls[i].depth < max_depth

\* C30 as stated: build_market_graph terminates; each name enters frontier
\* at most once; get_similar is called at most once per company and only at
\* a depth under max_depth; every node of the graph returned is within
\* max_depth edges of the seed
C30_NodesWithinMaxDepth ==
    /\ Terminates
    /\ [](EntersOnce /\ CalledOnceUnderMaxDepth)
    /\ [](mg_pc = "done" => DOMAIN G.nodes \subseteq WithinEdges(G, Seed, max_depth))

\* C30: the same, with every node of the graph returned within max_depth
\* edges of the seed when max_depth >= 0 and the seed alone in the graph
\* when max_depth is negative
C30_NodesWithinMaxDepthOrSeedAlone ==
    /\ Terminates
    /\ [](EntersOnce /\ CalledOnceUnderMaxDepth)
    /\ [](mg_pc = "done" =>
             DOMAIN G.nodes \subseteq WithinEdges(G, Seed, Max(max_depth, 0)))

\* a graph returned with a cycle of similar companies, a node two edges
\* from the seed, several calls of get_similar and a company in frontier
\* that was never asked about
C30_Witness ==
    /\ mg_pc = "done"
    /\ Cardinality(G.edges) >= Cardinality(DOMAIN G.nodes)
    /\ DOMAIN G.nodes \ WithinEdges(G, Seed, 1) # {}
    /\ Len(similar_calls) >= 2
    /\ Len(frontier_log) > Len(similar_calls)

===========================================================================
